---- MODULE Spec2Model ----
(***************************************************************************)
(* Rule evaluation, filtering, validation and fuzzy sampling of            *)
(* dataframely schemas (dataframely/_rule.py, _base_schema.py, schema.py,  *)
(* config.py, exc.py, columns/_mixins.py).                                 *)
(*                                                                         *)
(* A data frame is a record [dtypes, rows]: dtypes maps the present        *)
(* column names to their dtype, rows is the sequence of rows, each row a   *)
(* function from the present column names to a value.  Boolean rule        *)
(* outcomes are three-valued: "T", "F" and "N" (null).                     *)
(***************************************************************************)
EXTENDS Integers, Sequences, FiniteSets, TLC

VARIABLES
    schema,     \* the schema class the call is made on
    df,         \* the input data frame of filter / validate
    cast,       \* the cast flag of filter / validate
    args,       \* the num_rows and overrides arguments of sample
    options,    \* Config.options
    sampler,    \* the local variables of a running sample call
    pc,         \* position of the caller: which operation has run
    ret         \* what the operation returned or raised

vars == <<schema, df, cast, args, options, sampler, pc, ret>>

----------------------------------------------------------------------------
(* Bounds of the model *)

MaxRows == 2        \* longest input frame
MaxVal == 2         \* integer cell values are 1..MaxVal
MaxDraw == 1         \* the integers a column can draw are 1..MaxDraw
MaxSample == 2      \* largest num_rows and longest overrides passed to sample
MaxIter == 2        \* largest configured max_sampling_iterations

----------------------------------------------------------------------------
(* Cell values *)

NullV == [k |-> "null", v |-> 0]
IntV(n) == [k |-> "int", v |-> n]
\* a string that is the decimal text of n
StrV(n) == [k |-> "str", v |-> n]
\* a string that is not the text of any integer, such as "foo"
TextV == [k |-> "text", v |-> 0]

IsNull(x) == x.k = "null"

Dtypes == {"Int64", "String"}

\* the values a column of the given dtype can hold
ValuesOf(dtype) ==
    IF dtype = "Int64"
    THEN {NullV} \cup {IntV(n) : n \in 1..MaxVal}
    ELSE {NullV, TextV, StrV(1)}

----------------------------------------------------------------------------
(* Three-valued booleans of the expression engine *)

B3(b) == IF b THEN "T" ELSE "F"

\* fill_null(False) in place of fill_null(True)
FillNullFalse(x) == IF x = "N" THEN "F" ELSE x

\* Expr.fill_null(True)
FillNullTrue(x) == IF x = "N" THEN "T" ELSE x

\* comparison operators of two cells: null if an operand is null
Gt3(x, y) == IF IsNull(x) \/ IsNull(y) THEN "N" ELSE B3(x.v > y.v)
Ge3(x, y) == IF IsNull(x) \/ IsNull(y) THEN "N" ELSE B3(x.v >= y.v)
Le3(x, y) == IF IsNull(x) \/ IsNull(y) THEN "N" ELSE B3(x.v <= y.v)
Lt3(x, y) == IF IsNull(x) \/ IsNull(y) THEN "N" ELSE B3(x.v < y.v)

----------------------------------------------------------------------------
(* Sequence helpers *)

Indices(s) == 1..Len(s)

RECURSIVE SelectIdx(_, _, _)
\* the subsequence of s at the indices i >= from for which keep[i] holds
SelectIdx(s, keep, from) ==
    IF from > Len(s) THEN <<>>
    ELSE IF keep[from] THEN <<s[from]>> \o SelectIdx(s, keep, from + 1)
    ELSE SelectIdx(s, keep, from + 1)

\* DataFrame.filter(mask): the rows at which the mask is true, in frame order
FilterMask(s, keep) == SelectIdx(s, keep, 1)

\* the cell values of the rows of a frame
ValuesIn(rows) == [i \in Indices(rows) |-> rows[i].v]

\* every order in which n rows can come out of an operation
RowOrders(n) ==
    {p \in [1..n -> 1..n] : \A i, j \in 1..n : i # j => p[i] # p[j]}

Identity(n) == [i \in 1..n |-> i]

----------------------------------------------------------------------------
(* Columns and their validation rules *)

NoBound == [set |-> FALSE, v |-> 0]
Bound(n) == [set |-> TRUE, v |-> n]

\* an integer column: Column(primary_key, nullable) with the OrdinalMixin bounds
Int64(pk, nullable, min, min_exclusive, max, max_exclusive) ==
    [dtype |-> "Int64", primary_key |-> pk, nullable |-> nullable /\ ~pk,
     min |-> min, min_exclusive |-> min_exclusive,
     max |-> max, max_exclusive |-> max_exclusive]

\* a rule: name, Rule or GroupRule, group columns, lazy function or
\* expression, and the expression with the column and constant it refers to
MkRule(name, kind, group_columns, lazy, expr, col, arg) ==
    [name |-> name, kind |-> kind, group_columns |-> group_columns,
     lazy |-> lazy, expr |-> expr, col |-> col, arg |-> arg]

Rule(name, expr, col, arg) == MkRule(name, "row", {}, FALSE, expr, col, arg)
GroupRule(name, expr, col, arg, group_columns) ==
    MkRule(name, "group", group_columns, FALSE, expr, col, arg)

\* Column.validation_rules of the column base class: the nullability rule
ColumnBaseRules(column) ==
    IF column.nullable THEN <<>> ELSE <<[rule |-> "nullability", arg |-> 0]>>

\* OrdinalMixin.validation_rules: the rule names and bounds a column
\* contributes, in insertion order
validation_rules(column) ==
    ColumnBaseRules(column)
    \o (IF column.min.set THEN <<[rule |-> "min", arg |-> column.min.v]>> ELSE <<>>)
    \o (IF column.min_exclusive.set
        THEN <<[rule |-> "min_exclusive", arg |-> column.min_exclusive.v]>>
        ELSE <<>>)
    \o (IF column.max.set THEN <<[rule |-> "max", arg |-> column.max.v]>> ELSE <<>>)
    \o (IF column.max_exclusive.set /\ column.max_exclusive.v # 0
        THEN <<[rule |-> "max_exclusive", arg |-> column.max_exclusive.v]>>
        ELSE <<>>)

----------------------------------------------------------------------------
(* Python dictionaries with insertion order, as sequences of named entries *)

Names(d) == {d[i].name : i \in Indices(d)}

\* d[name] = entry
DictSet(d, entry) ==
    IF entry.name \in Names(d)
    THEN [i \in Indices(d) |-> IF d[i].name = entry.name THEN entry ELSE d[i]]
    ELSE Append(d, entry)

RECURSIVE DictUpdateFrom(_, _, _)
DictUpdateFrom(d, other, from) ==
    IF from > Len(other) THEN d
    ELSE DictUpdateFrom(DictSet(d, other[from]), other, from + 1)

\* d.update(other)
DictUpdate(d, other) == DictUpdateFrom(d, other, 1)

RECURSIVE Flatten(_, _)
\* the concatenation of the sequences ss[from], ss[from + 1], ...
Flatten(ss, from) ==
    IF from > Len(ss) THEN <<>> ELSE ss[from] \o Flatten(ss, from + 1)

----------------------------------------------------------------------------
(* Rule compilation *)

\* _primary_keys: the primary key columns in declaration order
primary_keys(s) ==
    FilterMask(s.column_names,
               [i \in Indices(s.column_names) |->
                    s.columns[s.column_names[i]].primary_key])

\* the column rules "<column>|<rule>" of one column
ColumnRules(s, c) ==
    LET rs == validation_rules(s.columns[c])
    IN  [i \in Indices(rs) |-> Rule(c \o "|" \o rs[i].rule, rs[i].rule, c, rs[i].arg)]

\* _build_rules: a copy of the custom rules, then primary_key, then the
\* column rules
build_rules(custom, s) ==
    LET withPk == IF Len(primary_keys(s)) > 0
                  THEN DictSet(custom, Rule("primary_key", "primary_key", "", 0))
                  ELSE custom
        column_rules ==
            Flatten([i \in Indices(s.column_names) |-> ColumnRules(s, s.column_names[i])], 1)
    IN  DictUpdate(withPk, column_rules)

\* BaseSchema._validation_rules
ValidationRules(s) == build_rules(s.rules, s)

----------------------------------------------------------------------------
(* Schema check and lenient cast *)

\* the data frame as it enters the pipeline: row i of the input is tagged
\* with its position i, which no operation of the program reads
InputRows(frame) ==
    [i \in Indices(frame.rows) |-> [id |-> i, v |-> frame.rows[i], orig_null |-> <<>>]]

\* Expr.cast(dtype, strict=False) to Int64: a value that cannot be
\* represented becomes null
CastLenient(x) ==
    IF x.k = "str" THEN IntV(x.v)
    ELSE IF x.k = "text" THEN NullV
    ELSE x

\* validate_columns: the schema columns the frame misses
MissingColumns(s, frame) ==
    {c \in DOMAIN s.columns : c \notin DOMAIN frame.dtypes}

\* validate_dtypes: the schema columns whose dtype differs from the schema's
DtypeMismatches(s, frame) ==
    {c \in DOMAIN s.columns \cap DOMAIN frame.dtypes :
        frame.dtypes[c] # s.columns[c].dtype}

Ok(rows) == [error |-> "none", columns |-> {}, rows |-> rows]
Raise(error, columns) == [error |-> error, columns |-> columns, rows |-> <<>>]

\* _validate_schema that casts leniently whatever the casting mode is
validate_schema_always_lenient(s, frame, casting) ==
    IF MissingColumns(s, frame) # {}
    THEN Raise("ValidationError", MissingColumns(s, frame))
    ELSE LET rows == InputRows(frame)
         IN  Ok([i \in Indices(rows) |->
                   [id |-> rows[i].id,
                    v |-> [c \in DOMAIN s.columns |->
                              IF c \in DtypeMismatches(s, frame)
                              THEN CastLenient(rows[i].v[c])
                              ELSE rows[i].v[c]],
                    orig_null |-> IF casting = "lenient"
                                  THEN [c \in DOMAIN s.columns |-> IsNull(rows[i].v[c])]
                                  ELSE <<>>]])

\* Schema._validate_schema
validate_schema(s, frame, casting) ==
    IF MissingColumns(s, frame) # {}
    THEN Raise("ValidationError", MissingColumns(s, frame))
    ELSE IF casting = "none" /\ DtypeMismatches(s, frame) # {}
    THEN Raise("DtypeValidationError", DtypeMismatches(s, frame))
    ELSE LET rows == InputRows(frame)
         IN  Ok([i \in Indices(rows) |->
                   [id |-> rows[i].id,
                    v |-> [c \in DOMAIN s.columns |->
                              IF c \in DtypeMismatches(s, frame)
                              THEN CastLenient(rows[i].v[c])
                              ELSE rows[i].v[c]],
                    orig_null |-> IF casting = "lenient"
                                  THEN [c \in DOMAIN s.columns |-> IsNull(rows[i].v[c])]
                                  ELSE <<>>]])

----------------------------------------------------------------------------
(* Rule expressions *)

\* the largest element of a non-empty set of integers
MaxOf(S) == CHOOSE m \in S : \A x \in S : x <= m

\* a duplicate test that spares the first row of every key
IsDuplicatedAfterFirst(s, rows, i) ==
    \E j \in Indices(rows) :
        /\ j < i
        /\ \A k \in Indices(primary_keys(s)) :
              rows[j].v[primary_keys(s)[k]] = rows[i].v[primary_keys(s)[k]]

\* pl.struct(primary_keys).is_duplicated() at row i
IsDuplicated(s, rows, i) ==
    \E j \in Indices(rows) :
        /\ j # i
        /\ \A k \in Indices(primary_keys(s)) :
              rows[j].v[primary_keys(s)[k]] = rows[i].v[primary_keys(s)[k]]

\* the expression of a row rule at row i, before any fill_null
RowExpr(s, rule, rows, i) ==
    LET r == rows[i]
    IN  CASE rule.expr = "primary_key" -> B3(~IsDuplicated(s, rows, i))
          [] rule.expr = "nullability" -> B3(~IsNull(r.v[rule.col]))
          [] rule.expr = "min" -> Ge3(r.v[rule.col], IntV(rule.arg))
          [] rule.expr = "min_exclusive" -> Gt3(r.v[rule.col], IntV(rule.arg))
          [] rule.expr = "max" -> Le3(r.v[rule.col], IntV(rule.arg))
          [] rule.expr = "max_exclusive" -> Lt3(r.v[rule.col], IntV(rule.arg))
          [] rule.expr = "b_greater_a" -> Gt3(r.v["b"], r.v["a"])
          [] rule.expr = "dtype" -> B3(IsNull(r.v[rule.col]) = r.orig_null[rule.col])

\* groups in which a null key equals nothing: a row with a null in a group
\* column is alone
GroupOfNullsDistinct(rule, rows, i) ==
    {j \in Indices(rows) :
        \/ j = i
        \/ \A c \in rule.group_columns : ~IsNull(rows[i].v[c]) /\ rows[j].v[c] = rows[i].v[c]}

\* the rows of the group of row i: equal values in all group columns, nulls
\* equal to each other
GroupOf(rule, rows, i) ==
    {j \in Indices(rows) : \A c \in rule.group_columns : rows[j].v[c] = rows[i].v[c]}

\* the aggregate of a group rule over the rows G, before any fill_null
AggExpr(rule, rows, G) ==
    LET vals == {rows[j].v[rule.col] : j \in G}
        ints == {x.v : x \in {y \in vals : ~IsNull(y)}}
    IN  CASE rule.expr = "n_unique_eq" -> B3(Cardinality(vals) = rule.arg)
          [] rule.expr = "len_ge" -> B3(Cardinality(G) >= rule.arg)
          [] rule.expr = "max_ge" ->
                IF ints = {} THEN "N" ELSE B3(MaxOf(ints) >= rule.arg)

----------------------------------------------------------------------------
(* Rule evaluation *)

\* list(rules.keys())
RuleNames(rules) == [i \in Indices(rules) |-> rules[i].name]

\* the group rules that _with_group_rules evaluates: without a schema class
\* the lazy ones are skipped
EvaluatedGroupRules(rules, has_class) ==
    FilterMask(rules, [i \in Indices(rules) |->
                          rules[i].kind = "group" /\ (has_class \/ ~rules[i].lazy)])

\* the simple rules that with_evaluation_rules evaluates
EvaluatedSimpleRules(rules, has_class) ==
    FilterMask(rules, [i \in Indices(rules) |->
                          rules[i].kind # "group" /\ (has_class \/ ~rules[i].lazy)])

\* the value a group rule broadcasts to row i: its aggregate, null filled
\* with true, of the group the row is joined to
GroupOutcome(rule, rows, i) ==
    FillNullTrue(AggExpr(rule, rows, GroupOf(rule, rows, i)))

\* a join without maintain_order returns its rows in an unspecified order
JoinOrder(rows, order) == [k \in Indices(rows) |-> rows[order[k]]]

\* the orders in which the rows of a frame of n rows can come out of the
\* rule evaluation of a schema: any order if a join is made, else the input's
JoinOrders(s, n) ==
    IF Len(EvaluatedGroupRules(ValidationRules(s), FALSE)) = 0
    THEN {Identity(n)}
    ELSE RowOrders(n)

\* the frame joined with the aggregates of the group rules; without group
\* rules there is no join and the frame is left as it is
JoinGroupRules(rows, group_rules, order) ==
    JoinOrder([i \in Indices(rows) |->
                  [id |-> rows[i].id, v |-> rows[i].v, orig_null |-> rows[i].orig_null,
                   out |-> [n \in Names(group_rules) |->
                              GroupOutcome(CHOOSE g \in {group_rules[k] : k \in Indices(group_rules)} :
                                               g.name = n,
                                           rows, i)]]],
              IF Len(group_rules) = 0 THEN Identity(Len(rows)) ELSE order)

\* _with_group_rules: one group_by and one left join per set of group
\* columns; the rows come out in the order the joins leave them in
with_group_rules(rows, rules, has_class, order) ==
    JoinGroupRules(rows, EvaluatedGroupRules(rules, has_class), order)

\* the simple rules, null filled with true, as columns next to the columns
\* of the group rules
WithSimpleRules(s, grouped, simple) ==
    [i \in Indices(grouped) |->
        [id |-> grouped[i].id, v |-> grouped[i].v, orig_null |-> grouped[i].orig_null,
         out |-> [n \in DOMAIN grouped[i].out \cup Names(simple) |->
                    IF n \in Names(simple)
                    THEN FillNullTrue(RowExpr(s,
                                              CHOOSE g \in {simple[k] : k \in Indices(simple)} :
                                                  g.name = n,
                                              grouped, i))
                    ELSE grouped[i].out[n]]]]

\* with_evaluation_rules: the frame with one boolean column per evaluated rule
with_evaluation_rules(s, rows, rules, has_class, order) ==
    WithSimpleRules(s, with_group_rules(rows, rules, has_class, order),
                    EvaluatedSimpleRules(rules, has_class))

\* grouped_rules: the evaluated group rules bucket by bucket, the buckets
\* (one per set of group columns) in the order of their first rule
GroupedRules(group_rules) ==
    LET leaders == FilterMask(group_rules,
                       [i \in Indices(group_rules) |->
                           \A j \in 1..(i - 1) :
                               group_rules[j].group_columns # group_rules[i].group_columns])
    IN  Flatten([b \in Indices(leaders) |->
                    FilterMask(group_rules,
                               [i \in Indices(group_rules) |->
                                   group_rules[i].group_columns = leaders[b].group_columns])],
                1)

\* the rule columns of the frame with_evaluation_rules returns, in the order
\* of the frame: the joins append the columns of the group rules, then
\* with_columns appends the columns of the simple rules
EvaluatedColumns(rules, has_class) ==
    RuleNames(GroupedRules(EvaluatedGroupRules(rules, has_class)))
        \o RuleNames(EvaluatedSimpleRules(rules, has_class))

----------------------------------------------------------------------------
(* Filtering *)

\* the "<col>|dtype" rules that a casting filter adds
dtype_rules(s) ==
    [i \in Indices(s.column_names) |->
        Rule(s.column_names[i] \o "|dtype", "dtype", s.column_names[i], 0)]

\* rule.endswith("|dtype")
IsDtypeRule(rule) == rule.expr = "dtype"

\* the names of the rule columns that with_evaluation_rules adds
EvaluatedNames(rules, has_class) ==
    Names(EvaluatedGroupRules(rules, has_class))
        \cup Names(EvaluatedSimpleRules(rules, has_class))

\* pl.all_horizontal over the "|dtype" columns of an evaluated row
AllDtypeCastsValid(rules, out) ==
    \A i \in Indices(rules) : IsDtypeRule(rules[i]) => out[rules[i].name] = "T"

\* the rule outcomes left as evaluated on the cast values
SuppressNothing(rules, out) == out

\* when casting, every other rule outcome of a row with a failed cast is null
SuppressOnCastFailure(rules, out) ==
    [n \in DOMAIN out |->
        IF \E i \in Indices(rules) : rules[i].name = n /\ ~IsDtypeRule(rules[i])
        THEN IF AllDtypeCastsValid(rules, out) THEN out[n] ELSE "N"
        ELSE out[n]]

\* any_horizontal in place of all_horizontal
FinalValidAny(out) == \E n \in DOMAIN out : FillNullTrue(out[n]) = "T"

\* __final_valid__: all rule columns, null counted as true
FinalValid(out) == \A n \in DOMAIN out : FillNullTrue(out[n]) = "T"

NoFrame == <<>>

\* what _filter_raw returns or raises; rules is the rule dictionary as the
\* call leaves it
RawResult(error, columns, result, evaluated, is_none, rules) ==
    [error |-> error, columns |-> columns, result |-> result,
     evaluated |-> evaluated, evaluated_is_none |-> is_none, rules |-> rules]

\* the rule outcomes of one evaluated row as the filter counts them
RowOutcomes(rules, docast, out) ==
    IF docast THEN SuppressOnCastFailure(rules, out) ELSE out

\* df_evaluated: the evaluated frame with the __final_valid__ column
WithFinalValid(lf_with_eval, rules, docast) ==
    [i \in Indices(lf_with_eval) |->
        [id |-> lf_with_eval[i].id, v |-> lf_with_eval[i].v,
         out |-> RowOutcomes(rules, docast, lf_with_eval[i].out),
         final_valid |-> FinalValid(RowOutcomes(rules, docast, lf_with_eval[i].out))]]

\* a selection that returns no row
DropRuleColumnsAndRows(rows) == <<>>

\* the rows without the rule columns
DropRuleColumns(rows) == [i \in Indices(rows) |-> [id |-> rows[i].id, v |-> rows[i].v]]

\* the rows of df_evaluated at which __final_valid__ holds
ValidRows(df_evaluated) ==
    FilterMask(df_evaluated, [i \in Indices(df_evaluated) |-> df_evaluated[i].final_valid])

\* the valid rows without the rule columns, next to df_evaluated
PartitionEvaluated(df_evaluated, rules) ==
    RawResult("none", {}, DropRuleColumns(ValidRows(df_evaluated)), df_evaluated, FALSE, rules)

\* Schema._filter_raw once the schema check has run and the dtype rules are
\* in the rule dictionary
FilterChecked(s, checked, rules_in, rules, docast, order) ==
    IF checked.error # "none"
    THEN RawResult(checked.error, checked.columns, NoFrame, NoFrame, TRUE, rules_in)
    ELSE IF Len(rules) > 0
    THEN IF ~(Names(rules) \subseteq EvaluatedNames(rules, FALSE))
         THEN RawResult("ColumnNotFoundError",
                        Names(rules) \ EvaluatedNames(rules, FALSE),
                        NoFrame, NoFrame, TRUE, rules)
         ELSE PartitionEvaluated(
                  WithFinalValid(with_evaluation_rules(s, checked.rows, rules, FALSE, order),
                                 rules, docast),
                  rules)
    ELSE RawResult("none", {}, DropRuleColumns(checked.rows), NoFrame, TRUE, rules)

\* Schema._filter_raw
filter_raw(s, frame, rules_in, docast, order) ==
    FilterChecked(s, validate_schema(s, frame, IF docast THEN "lenient" ELSE "none"),
                  rules_in,
                  IF docast THEN DictUpdate(rules_in, dtype_rules(s)) ELSE rules_in,
                  docast, order)

\* FailureInfo(lf, rule_columns): the failing rows with their rule columns,
\* and the order in which the frame holds the rule columns
FailureInfo(rows, rule_columns, columns) ==
    [rows |-> rows, rule_columns |-> rule_columns, columns |-> columns]

EmptyFailure == FailureInfo(<<>>, <<>>, <<>>)

\* what filter and validate return or raise
Result(error, columns, result, failure, errors) ==
    [error |-> error, columns |-> columns, result |-> result,
     failure |-> failure, errors |-> errors]

\* the rows without the __final_valid__ column
DropFinalValid(rows) ==
    [i \in Indices(rows) |-> [id |-> rows[i].id, v |-> rows[i].v, out |-> rows[i].out]]

\* Schema.filter with the failure frame taken without the filter on
\* __final_valid__
FailingRowsAll(df_evaluated) ==
    DropFinalValid(df_evaluated)

\* the rows of df_evaluated at which __final_valid__ does not hold, without
\* the __final_valid__ column
FailingRows(df_evaluated) ==
    DropFinalValid(FilterMask(df_evaluated,
                              [i \in Indices(df_evaluated) |-> ~df_evaluated[i].final_valid]))

\* Schema.filter once _filter_raw has returned or raised
FilterResult(raw) ==
    IF raw.error # "none"
    THEN Result(raw.error, raw.columns, NoFrame, EmptyFailure, <<>>)
    ELSE IF ~raw.evaluated_is_none
    THEN Result("none", {}, raw.result,
                FailureInfo(FailingRows(raw.evaluated), RuleNames(raw.rules),
                            EvaluatedColumns(raw.rules, FALSE)),
                <<>>)
    ELSE Result("none", {}, raw.result, EmptyFailure, <<>>)

\* Schema.filter
filter(s, frame, docast, order) ==
    FilterResult(filter_raw(s, frame, ValidationRules(s), docast, order))

\* FailureInfo.__len__
FailureLen(failure) == Len(failure.rows)

\* the number of failing rows whose outcome of the rule is false
FailureCount(failure, name) ==
    Cardinality({i \in Indices(failure.rows) : failure.rows[i].out[name] = "F"})

\* FailureInfo.counts: the rules with at least one failure, with their counts
counts(failure) ==
    [n \in {m \in {failure.rule_columns[i] : i \in Indices(failure.rule_columns)} :
                FailureCount(failure, m) > 0} |-> FailureCount(failure, n)]

\* the exact set of rules a row of the failure frame fails
FailedRules(failure, i) ==
    {n \in {failure.rule_columns[j] : j \in Indices(failure.rule_columns)} :
        failure.rows[i].out[n] = "F"}

\* FailureInfo.cooccurrence_counts: the number of rows per exact set of
\* simultaneously failing rules
cooccurrence_counts(failure) ==
    [S \in {FailedRules(failure, i) : i \in Indices(failure.rows)} |->
        Cardinality({i \in Indices(failure.rows) : FailedRules(failure, i) = S})]

\* the rule of the given name
RuleNamed(rules, n) == CHOOSE r \in {rules[i] : i \in Indices(rules)} : r.name = n

\* "|" in name: the name is "<column>|<rule>"
HasBar(rule) == rule.col # "" /\ rule.name = rule.col \o "|" \o rule.expr

\* name.split("|", maxsplit=1) of every name with a "|"
SplitErrors(rules, errors) ==
    [schema_errors |->
        [n \in {m \in DOMAIN errors : ~HasBar(RuleNamed(rules, m))} |-> errors[n]],
     column_errors |->
        [c \in {RuleNamed(rules, n).col :
                    n \in {m \in DOMAIN errors : HasBar(RuleNamed(rules, m))}} |->
            [r \in {RuleNamed(rules, n).expr :
                       n \in {m \in DOMAIN errors :
                                 HasBar(RuleNamed(rules, m)) /\ RuleNamed(rules, m).col = c}} |->
                errors[c \o "|" \o r]]]]

\* RuleValidationError(errors): the counts split into schema rules and
\* the rules "<column>|<rule>" of each column
RuleValidationError(s, docast, errors) ==
    SplitErrors(IF docast
                THEN DictUpdate(ValidationRules(s), dtype_rules(s))
                ELSE ValidationRules(s),
                errors)

\* Schema.validate once filter has returned or raised
ValidateResult(s, docast, r) ==
    IF r.error # "none" THEN r
    ELSE IF FailureLen(r.failure) > 0
    THEN Result("RuleValidationError", {}, NoFrame, EmptyFailure,
                RuleValidationError(s, docast, counts(r.failure)))
    ELSE Result("none", {}, r.result, EmptyFailure, <<>>)

\* Schema.validate
validate(s, frame, docast, order) ==
    ValidateResult(s, docast, filter(s, frame, docast, order))

----------------------------------------------------------------------------
(* The schemas of the model *)

SchemaClass(name, names, cols, custom) ==
    [name |-> name, column_names |-> names, columns |-> cols, rules |-> custom]

\* a primary key column and a nullable column with an upper bound
MySchema ==
    SchemaClass("MySchema", <<"a", "b">>,
        [c \in {"a", "b"} |->
            IF c = "a" THEN Int64(TRUE, FALSE, NoBound, NoBound, NoBound, NoBound)
            ELSE Int64(FALSE, TRUE, NoBound, NoBound, Bound(1), NoBound)],
        <<>>)

\* nullable columns without any rule
NoRuleSchema ==
    SchemaClass("NoRuleSchema", <<"a", "b">>,
        [c \in {"a", "b"} |-> Int64(FALSE, TRUE, NoBound, NoBound, NoBound, NoBound)],
        <<>>)

\* a row rule over both columns and a group rule
MyComplexSchema ==
    SchemaClass("MyComplexSchema", <<"a", "b">>,
        [c \in {"a", "b"} |-> Int64(FALSE, TRUE, NoBound, NoBound, NoBound, NoBound)],
        <<Rule("b_greater_a", "b_greater_a", "", 0),
          GroupRule("b_unique_within_a", "n_unique_eq", "b", 1, {"a"})>>)

\* two group rules over different group columns; the aggregate of the
\* second is null for a group without a non-null b
GroupSchema ==
    SchemaClass("GroupSchema", <<"a", "b">>,
        [c \in {"a", "b"} |->
            IF c = "a" THEN Int64(FALSE, FALSE, NoBound, NoBound, NoBound, NoBound)
            ELSE Int64(FALSE, TRUE, NoBound, NoBound, Bound(2), NoBound)],
        <<GroupRule("at_least_two_per_b", "len_ge", "b", 2, {"b"}),
          GroupRule("b_max_per_a", "max_ge", "b", 2, {"a"})>>)

Schemas == {MySchema, NoRuleSchema, MyComplexSchema, GroupSchema}

----------------------------------------------------------------------------
(* Schema class creation *)

\* a class attribute holding a column
ColumnAttr(attr, alias, column) ==
    [attr |-> attr, kind |-> "column", alias |-> alias, column |-> column,
     rule |-> Rule("", "", "", 0)]

\* a class attribute holding a rule, which has no name of its own
RuleAttr(attr, rule) ==
    [attr |-> attr, kind |-> "rule", alias |-> "",
     column |-> Int64(FALSE, TRUE, NoBound, NoBound, NoBound, NoBound),
     rule |-> rule]

\* k.startswith("__"), over the attribute names of the model
IsDunder(attr) == attr \in {"__r__"}

\* Metadata: the columns and rules of a schema, and whether gathering them
\* raised
Metadata(error, columns, rules) ==
    [error |-> error, columns |-> columns, rules |-> rules]

\* Metadata.update
MetadataUpdate(result, other) ==
    Metadata(IF result.error # "none" THEN result.error ELSE other.error,
             DictUpdate(result.columns, other.columns),
             DictUpdate(result.rules, other.rules))

RECURSIVE GetMetadataFrom(_, _, _)
\* the loop of SchemaMeta._get_metadata from the given attribute on
GetMetadataFrom(source, from, result) ==
    IF from > Len(source) THEN result
    ELSE IF IsDunder(source[from].attr)
    THEN GetMetadataFrom(source, from + 1, result)
    ELSE IF source[from].kind = "column"
    THEN GetMetadataFrom(source, from + 1,
             Metadata(result.error,
                      DictSet(result.columns,
                              [name |-> IF source[from].alias # ""
                                        THEN source[from].alias
                                        ELSE source[from].attr,
                               column |-> source[from].column]),
                      result.rules))
    ELSE IF source[from].attr = "primary_key"
    THEN Metadata("ImplementationError", result.columns, result.rules)
    ELSE GetMetadataFrom(source, from + 1,
             Metadata(result.error, result.columns,
                      DictSet(result.rules,
                              [source[from].rule EXCEPT !.name = source[from].attr])))

\* SchemaMeta._get_metadata
get_metadata(source) == GetMetadataFrom(source, 1, Metadata("none", <<>>, <<>>))

RECURSIVE get_metadata_recursively(_)
RECURSIVE BasesMetadataFrom(_, _, _)
\* result.update(_get_metadata_recursively(base)) for the bases from the
\* given one on
BasesMetadataFrom(bases, from, result) ==
    IF from > Len(bases) THEN result
    ELSE BasesMetadataFrom(bases, from + 1,
             MetadataUpdate(result, get_metadata_recursively(bases[from])))

\* SchemaMeta._get_metadata_recursively
get_metadata_recursively(kls) ==
    MetadataUpdate(BasesMetadataFrom(kls.bases, 1, Metadata("none", <<>>, <<>>)),
                   get_metadata(kls.namespace))

\* the class that the gathered columns and rules make
ClassOf(name, result) ==
    SchemaClass(name,
                [i \in Indices(result.columns) |-> result.columns[i].name],
                [c \in Names(result.columns) |->
                    (CHOOSE e \in {result.columns[i] : i \in Indices(result.columns)} :
                         e.name = c).column],
                result.rules)

\* check 1 of SchemaMeta.__new__: the names that are both a column and a
\* rule, the dtype rules included
CommonNames(kls) ==
    DOMAIN kls.columns
    \cap (Names(build_rules(kls.rules, kls)) \cup {c \o "|dtype" : c \in DOMAIN kls.columns})

\* check 2 of SchemaMeta.__new__ that finds every group column in the schema
MissingGroupColumnsNone(rule, columns) == {}

\* check 2 of SchemaMeta.__new__: the group columns that are not in the schema
MissingGroupColumns(rule, columns) ==
    IF rule.kind = "group" THEN rule.group_columns \ columns ELSE {}

\* the rules, in declaration order, that check 2 rejects
BadGroupRules(kls) ==
    FilterMask(kls.rules,
               [i \in Indices(kls.rules) |->
                    MissingGroupColumns(kls.rules[i], DOMAIN kls.columns) # {}])

Created(kls) == [error |-> "none", names |-> {}, kls |-> kls]
NotCreated(names, kls) == [error |-> "ImplementationError", names |-> names, kls |-> kls]

\* the checks of SchemaMeta.__new__ on the gathered columns and rules
CheckedClass(kls) ==
    IF CommonNames(kls) # {} THEN NotCreated(CommonNames(kls), kls)
    ELSE IF Len(BadGroupRules(kls)) > 0
    THEN NotCreated(MissingGroupColumns(BadGroupRules(kls)[1], DOMAIN kls.columns), kls)
    ELSE Created(kls)

\* SchemaMeta.__new__
SchemaMeta_new(name, bases, namespace) ==
    LET result == MetadataUpdate(BasesMetadataFrom(bases, 1, Metadata("none", <<>>, <<>>)),
                                 get_metadata(namespace))
    IN  IF result.error # "none"
        THEN NotCreated({"primary_key"}, ClassOf(name, result))
        ELSE CheckedClass(ClassOf(name, result))

----------------------------------------------------------------------------
(* The input frames of the model *)

AllColumns == {"a", "b"}

DtypeMaps == UNION {[P -> Dtypes] : P \in SUBSET AllColumns}

RowsOf(d) == {r \in [DOMAIN d -> UNION {ValuesOf(t) : t \in Dtypes}] :
                 \A c \in DOMAIN d : r[c] \in ValuesOf(d[c])}

\* the frames of the given dtypes with at most max rows
FramesWith(d, max) ==
    {[dtypes |-> d, rows |-> r] :
        r \in UNION {[1..n -> RowsOf(d)] : n \in 0..(IF DOMAIN d = {} THEN 0 ELSE max)}}

Frames(max) == UNION {FramesWith(d, max) : d \in DtypeMaps}

----------------------------------------------------------------------------
(* Sampling *)

\* bool(overrides): a mapping with a key or a sequence with a row
OverridesGiven(overrides) ==
    IF overrides.layout = "col" THEN overrides.keys # {}
    ELSE IF overrides.layout = "row" THEN Len(overrides.rows) > 0
    ELSE FALSE

\* set(overrides) of a mapping, set(overrides[0]) of a sequence of mappings
override_keys(overrides) == overrides.keys

\* values.with_row_index("__row_index__") of the overrides frame
WithRowIndex(rows) == [i \in Indices(rows) |-> [row_index |-> i, v |-> rows[i]]]

\* the frame of candidate rows of the schema's dtypes
SchemaFrame(s, rows) ==
    [dtypes |-> [c \in DOMAIN s.columns |-> s.columns[c].dtype], rows |-> rows]

\* Column.sample: the values a column can draw
SampleValues(column) ==
    {IntV(n) : n \in 1..MaxDraw} \cup (IF column.nullable THEN {NullV} ELSE {})

\* the draws of one round: num rows of the columns without override
Draws(s, keys, num) ==
    [1..num -> {d \in [DOMAIN s.columns \ keys -> UNION {SampleValues(s.columns[c]) : c \in DOMAIN s.columns}] :
                   \A c \in DOMAIN d : d[c] \in SampleValues(s.columns[c])}]

SampleState(result, used_values, remaining_values) ==
    [result |-> result, used_values |-> used_values, remaining_values |-> remaining_values]

\* the frame of num_rows candidate rows: the columns with overrides are the
\* columns of remaining_values, the others are drawn
Sampled(s, num, draws, remaining_values, keys) ==
    [i \in 1..(IF DOMAIN s.columns \cap keys = {} THEN num ELSE Len(remaining_values)) |->
        [c \in DOMAIN s.columns |->
            IF c \in keys THEN remaining_values[i].v[c] ELSE draws[i][c]]]

\* Schema._sample_filter once _filter_raw has returned: the override rows
\* split by the __final_valid__ column of the evaluated frame
SplitValues(raw, used_values, remaining_values, concat_values) ==
    IF raw.evaluated_is_none
    THEN SampleState(ValuesIn(raw.result), remaining_values, <<>>)
    ELSE IF Len(concat_values) = 0
    THEN SampleState(ValuesIn(raw.result), concat_values, concat_values)
    ELSE SampleState(ValuesIn(raw.result),
                     FilterMask(concat_values,
                                [i \in Indices(raw.evaluated) |-> raw.evaluated[i].final_valid]),
                     FilterMask(concat_values,
                                [i \in Indices(raw.evaluated) |-> ~raw.evaluated[i].final_valid]))

\* Schema._sample_filter: num fresh rows, the overridden columns taken from
\* the remaining overrides, appended to the previous result and filtered
sample_filter(s, num, draws, previous_result, used_values, remaining_values, keys, order) ==
    SplitValues(filter_raw(s,
                           SchemaFrame(s, previous_result
                                            \o Sampled(s, num, draws, remaining_values, keys)),
                           ValidationRules(s), FALSE, order),
                used_values, remaining_values, used_values \o remaining_values)

\* a loop condition that holds only for a result that is too long
SamplingIncompleteGt(result, num_rows) == Len(result) > num_rows

\* while len(result) != num_rows
SamplingIncomplete(result, num_rows) == Len(result) # num_rows

\* a budget check that lets one more round through
BudgetExhaustedGt(sampling_rounds, max_sampling_iterations) ==
    sampling_rounds > max_sampling_iterations

\* sampling_rounds >= Config.options["max_sampling_iterations"]
BudgetExhausted(sampling_rounds, max_sampling_iterations) ==
    sampling_rounds >= max_sampling_iterations

\* the position at which the row with the k-th smallest row index stands
RECURSIVE SortedByRowIndex(_, _)
SortedByRowIndex(pairs, todo) ==
    IF todo = {} THEN <<>>
    ELSE LET i == CHOOSE x \in todo : \A y \in todo : pairs[x].row_index <= pairs[y].row_index
         IN  <<pairs[i].row>> \o SortedByRowIndex(pairs, todo \ {i})

\* the result concatenated horizontally with the used row indices, sorted by
\* the index, the index dropped
Reorder(result, used_values) ==
    IF Len(used_values) > 0
    THEN SortedByRowIndex([i \in Indices(result) |->
                              [row |-> result[i], row_index |-> used_values[i].row_index]],
                          Indices(result))
    ELSE result

Idle == [num_rows |-> 0, keys |-> {}, sampling_rounds |-> 0,
         result |-> <<>>, used_values |-> <<>>, remaining_values |-> <<>>]

Running(num_rows, keys, sampling_rounds, state) ==
    [num_rows |-> num_rows, keys |-> keys, sampling_rounds |-> sampling_rounds,
     result |-> state.result, used_values |-> state.used_values,
     remaining_values |-> state.remaining_values]

----------------------------------------------------------------------------
(* Calls of filter and validate *)

NoRet == [op |-> "none", r |-> Result("none", {}, NoFrame, EmptyFailure, <<>>)]

NoFrameInput == [dtypes |-> <<>>, rows |-> <<>>]

NoArgs == [num_rows |-> [given |-> FALSE, n |-> 0],
           overrides |-> [layout |-> "none", keys |-> {}, rows |-> <<>>]]

\* default_options()
default_options == [max_sampling_iterations |-> MaxIter]

Init ==
    /\ schema \in Schemas
    /\ df \in Frames(MaxRows)
    /\ cast \in BOOLEAN
    /\ args = NoArgs
    /\ options = default_options
    /\ sampler = Idle
    /\ pc = "start"
    /\ ret = NoRet

\* df_valid, failures = schema.filter(df, cast=cast)
Filter ==
    /\ pc = "start"
    /\ \E order \in JoinOrders(schema, Len(df.rows)) :
          ret' = [op |-> "filter", r |-> filter(schema, df, cast, order)]
    /\ pc' = "filter"
    /\ UNCHANGED <<schema, df, cast, args, options, sampler>>

\* schema.validate(df, cast=cast)
Validate ==
    /\ pc = "start"
    /\ \E order \in JoinOrders(schema, Len(df.rows)) :
          ret' = [op |-> "validate", r |-> validate(schema, df, cast, order)]
    /\ pc' = "validate"
    /\ UNCHANGED <<schema, df, cast, args, options, sampler>>

Next == Filter \/ Validate

Spec == Init /\ [][Next]_vars

----------------------------------------------------------------------------
(* Calls of sample *)

\* the columns overrides can name: the schema's and one that is in no schema
OverrideKeySets == {{}, {"a"}, {"b"}, {"a", "b"}, {"z"}}

\* the values overrides hold: any value of the dtype for a, null or 1 for
\* the other columns
OverrideValues(c) == IF c = "a" THEN ValuesOf("Int64") ELSE {NullV, IntV(1)}

OverrideRows(keys) ==
    {r \in [keys -> ValuesOf("Int64")] : \A c \in keys : r[c] \in OverrideValues(c)}

\* the lists of at least low and at most MaxSample override rows
OverrideLists(keys, low) == UNION {[1..n -> OverrideRows(keys)] : n \in low..MaxSample}

\* overrides=None, a mapping of columns to value lists, or a list of rows
Overrides ==
    {[layout |-> "none", keys |-> {}, rows |-> <<>>]}
    \cup {[layout |-> "col", keys |-> {}, rows |-> <<>>]}
    \cup UNION {{[layout |-> "col", keys |-> ks, rows |-> rs] : rs \in OverrideLists(ks, 0)} :
                   ks \in OverrideKeySets \ {{}}}
    \cup {[layout |-> "row", keys |-> {}, rows |-> <<>>]}
    \cup UNION {{[layout |-> "row", keys |-> ks, rows |-> rs] : rs \in OverrideLists(ks, 1)} :
                   ks \in OverrideKeySets \ {{}}}

NumRows == {[given |-> FALSE, n |-> 0]} \cup {[given |-> TRUE, n |-> n] : n \in 0..MaxSample}

\* the schemas sample is called on: with a primary key and a column rule,
\* without rules, with a row rule and a group rule
SampleSchemas == {MySchema, NoRuleSchema, MyComplexSchema}

SampleInit ==
    /\ schema \in SampleSchemas
    /\ df = NoFrameInput
    /\ cast = FALSE
    /\ args \in [num_rows : NumRows, overrides : Overrides]
    /\ options \in [max_sampling_iterations : 1..MaxIter]
    /\ sampler = Idle
    /\ pc = "start"
    /\ ret = NoRet

SampleRaise(error, columns) ==
    [op |-> "sample", r |-> Result(error, columns, NoFrame, EmptyFailure, <<>>)]

\* Schema.sample up to the loop: the precondition checks and the first
\* sampling round
SampleBegin ==
    /\ pc = "start"
    /\ LET overrides == args.overrides
           height == Len(overrides.rows)
           num_rows == IF OverridesGiven(overrides) THEN height
                       ELSE IF args.num_rows.given THEN args.num_rows.n ELSE 1
           keys == IF OverridesGiven(overrides) THEN override_keys(overrides) ELSE {}
           values == IF OverridesGiven(overrides) THEN WithRowIndex(overrides.rows) ELSE <<>>
       IN  IF OverridesGiven(overrides) /\ ~(override_keys(overrides) \subseteq DOMAIN schema.columns)
           THEN /\ ret' = SampleRaise("ValueError", override_keys(overrides) \ DOMAIN schema.columns)
                /\ pc' = "raised"
                /\ sampler' = sampler
           ELSE IF OverridesGiven(overrides) /\ args.num_rows.given /\ args.num_rows.n # height
           THEN /\ ret' = SampleRaise("ValueError", {})
                /\ pc' = "raised"
                /\ sampler' = sampler
           ELSE /\ \E draws \in Draws(schema, keys, num_rows) :
                   \E order \in JoinOrders(schema, num_rows) :
                      sampler' = Running(num_rows, keys, 1,
                                         sample_filter(schema, num_rows, draws, <<>>, <<>>,
                                                       values, keys, order))
                /\ pc' = "loop"
                /\ ret' = ret
    /\ UNCHANGED <<schema, df, cast, args, options>>

\* one iteration of the loop: another sampling round
SampleRound ==
    /\ pc = "loop"
    /\ SamplingIncomplete(sampler.result, sampler.num_rows)
    /\ ~BudgetExhausted(sampler.sampling_rounds, options.max_sampling_iterations)
    /\ LET num == sampler.num_rows - Len(sampler.result)
       IN  \E draws \in Draws(schema, sampler.keys, num) :
           \E order \in JoinOrders(schema, sampler.num_rows) :
              sampler' = Running(sampler.num_rows, sampler.keys, sampler.sampling_rounds + 1,
                                 sample_filter(schema, num, draws, sampler.result,
                                               sampler.used_values, sampler.remaining_values,
                                               sampler.keys, order))
    /\ UNCHANGED <<schema, df, cast, args, options, pc, ret>>

\* the loop gives up: the budget of sampling rounds is used up
SampleExhausted ==
    /\ pc = "loop"
    /\ SamplingIncomplete(sampler.result, sampler.num_rows)
    /\ BudgetExhausted(sampler.sampling_rounds, options.max_sampling_iterations)
    /\ ret' = SampleRaise("ValueError", {})
    /\ pc' = "raised"
    /\ UNCHANGED <<schema, df, cast, args, options, sampler>>

\* the loop is left: the result is put in the order of the overrides and
\* returned
SampleReturn ==
    /\ pc = "loop"
    /\ ~SamplingIncomplete(sampler.result, sampler.num_rows)
    /\ ret' = [op |-> "sample",
               r |-> Result("none", {}, Reorder(sampler.result, sampler.used_values),
                            EmptyFailure, <<>>)]
    /\ pc' = "sampled"
    /\ UNCHANGED <<schema, df, cast, args, options, sampler>>

SampleNext == SampleBegin \/ SampleRound \/ SampleExhausted \/ SampleReturn

SampleSpec == SampleInit /\ [][SampleNext]_vars

----------------------------------------------------------------------------
(* Class statements *)

PlainColumn(pk) == Int64(pk, TRUE, NoBound, NoBound, NoBound, NoBound)

\* the rules a class body declares: a rule over rows and rules over the
\* groups of a column that may or may not be in the schema
CustomRules ==
    {Rule("", "min", "a", 1)}
    \cup {GroupRule("", "len_ge", "a", 1, {g}) : g \in {"a", "b", "c"}}

\* what a class body assigns to each of its attributes, if anything
DeclA == {<<ColumnAttr("a", "", PlainColumn(pk))>> : pk \in BOOLEAN}
DeclB ==
    {<<>>}
    \cup {<<ColumnAttr("b", alias, PlainColumn(FALSE))>> :
             alias \in {"", "r", "a|dtype", "a|nullability", "primary_key"}}
    \cup {<<RuleAttr("b", r)>> : r \in CustomRules}
DeclR ==
    {<<>>, <<ColumnAttr("r", "", PlainColumn(FALSE))>>}
    \cup {<<RuleAttr("r", r)>> : r \in CustomRules}
DeclPrimaryKey ==
    {<<>>, <<ColumnAttr("primary_key", "", PlainColumn(FALSE))>>,
     <<RuleAttr("primary_key", Rule("", "min", "a", 1))>>}
DeclDunder == {<<>>, <<RuleAttr("__r__", GroupRule("", "len_ge", "a", 1, {"c"}))>>}
\* a rule under the name the column a gives its nullability rule, as
\* type(name, bases, {..., "a|nullability": Rule(...)}) declares it
DeclBar == {<<>>, <<RuleAttr("a|nullability", Rule("", "min", "a", 1))>>}

Namespaces ==
    {a \o b \o r \o k \o d \o n :
        a \in DeclA, b \in DeclB, r \in DeclR, k \in DeclPrimaryKey, d \in DeclDunder,
        n \in DeclBar}

\* a base class that declares the column b
BaseWithB ==
    [bases |-> <<>>, namespace |-> <<ColumnAttr("b", "", PlainColumn(FALSE))>>]

ClassStatements ==
    [name : {"Declared"}, bases : {<<>>, <<BaseWithB>>}, namespace : Namespaces]

NoClass == SchemaClass("", <<>>, <<>>, <<>>)

\* the frames the created class is applied to
ClassFrames == FramesWith([c \in {"a", "b"} |-> "Int64"], 1)

ClassInit ==
    /\ schema = NoClass
    /\ df \in ClassFrames
    /\ cast \in BOOLEAN
    /\ args \in ClassStatements
    /\ options = default_options
    /\ sampler = Idle
    /\ pc = "class"
    /\ ret = NoRet

\* class Declared(*bases): <namespace>
CreateClass ==
    /\ pc = "class"
    /\ \E r \in {SchemaMeta_new(args.name, args.bases, args.namespace)} :
          IF r.error = "none"
          THEN /\ schema' = r.kls
               /\ pc' = "start"
               /\ ret' = ret
          ELSE /\ schema' = schema
               /\ pc' = "raised"
               /\ ret' = [op |-> "class",
                          r |-> Result(r.error, r.names, NoFrame, EmptyFailure, <<>>)]
    /\ UNCHANGED <<df, cast, args, options, sampler>>

ClassNext == CreateClass \/ Filter \/ Validate

ClassSpec == ClassInit /\ [][ClassNext]_vars

----------------------------------------------------------------------------
(* Reading stored data *)

\* Validation
ValidationModes == {"allow", "warn", "forbid", "skip"}

\* a source: one file or a list of files, and the schema its metadata
\* stores, as Schema.matches compares it with the reading schema
Sources == [is_list : BOOLEAN, metadata : {"none", "match", "mismatch"}]

\* serialized_schema: the stored schema, which is not read from a list
serialized_schema(source) ==
    IF ~source.is_list THEN source.metadata ELSE "none"

Requirement(error, warnings, required) ==
    [error |-> error, warnings |-> warnings, required |-> required]

\* _requires_validation_for_reading_parquet that warns in every mode
requires_validation_always_warn(source, validation) ==
    IF validation = "skip" THEN Requirement("none", 0, FALSE)
    ELSE IF serialized_schema(source) = "match" THEN Requirement("none", 0, FALSE)
    ELSE IF validation = "forbid" THEN Requirement("ValidationRequiredError", 0, FALSE)
    ELSE Requirement("none", 1, TRUE)

\* Schema._requires_validation_for_reading_parquet
requires_validation(source, validation) ==
    IF validation = "skip" THEN Requirement("none", 0, FALSE)
    ELSE IF serialized_schema(source) = "match" THEN Requirement("none", 0, FALSE)
    ELSE IF validation = "forbid" THEN Requirement("ValidationRequiredError", 0, FALSE)
    ELSE Requirement("none", IF validation = "warn" THEN 1 ELSE 0, TRUE)

\* what a read leaves behind: what it returns or raises, the calls of
\* validate it made and the warnings it emitted
ReadOutcome(op, r, validate_calls, warnings) ==
    [op |-> op, r |-> r, validate_calls |-> validate_calls, warnings |-> warnings]

\* Schema.read_parquet and Schema.scan_parquet once the requirement is known
ReadResult(op, s, frame, requirement, order) ==
    IF requirement.error # "none"
    THEN ReadOutcome(op, Result(requirement.error, {}, NoFrame, EmptyFailure, <<>>), 0, 0)
    ELSE IF ~requirement.required
    THEN ReadOutcome(op, Result("none", {}, DropRuleColumns(InputRows(frame)),
                                EmptyFailure, <<>>), 0, 0)
    ELSE ReadOutcome(op, validate(s, frame, TRUE, order), 1, requirement.warnings)

\* Schema.read_parquet
read_parquet(s, source, validation, frame, order) ==
    ReadResult("read_parquet", s, frame, requires_validation(source, validation), order)

\* Schema.scan_parquet
scan_parquet(s, source, validation, frame, order) ==
    ReadResult("scan_parquet", s, frame, requires_validation(source, validation), order)

ReadSchemas == {MySchema, NoRuleSchema, MyComplexSchema}

\* the frames a source holds
StoredFrames == Frames(1)

ReadInit ==
    /\ schema \in ReadSchemas
    /\ df \in StoredFrames
    /\ cast = TRUE
    /\ args \in [source : Sources, validation : ValidationModes]
    /\ options = default_options
    /\ sampler = Idle
    /\ pc = "start"
    /\ ret = NoRet

\* schema.read_parquet(source, validation=validation)
ReadParquet ==
    /\ pc = "start"
    /\ \E order \in JoinOrders(schema, Len(df.rows)) :
          ret' = read_parquet(schema, args.source, args.validation, df, order)
    /\ pc' = "read"
    /\ UNCHANGED <<schema, df, cast, args, options, sampler>>

\* schema.scan_parquet(source, validation=validation)
ScanParquet ==
    /\ pc = "start"
    /\ \E order \in JoinOrders(schema, Len(df.rows)) :
          ret' = scan_parquet(schema, args.source, args.validation, df, order)
    /\ pc' = "read"
    /\ UNCHANGED <<schema, df, cast, args, options, sampler>>

ReadNext == ReadParquet \/ ScanParquet

ReadSpec == ReadInit /\ [][ReadNext]_vars

----------------------------------------------------------------------------
(* Collections *)

MaxMemberRows == 2  \* longest member frame passed to Collection.filter

\* a member schema with the primary key a
FirstSchema ==
    SchemaClass("FirstSchema", <<"a">>,
        [c \in {"a"} |-> Int64(TRUE, FALSE, NoBound, NoBound, NoBound, NoBound)],
        <<>>)

\* a member schema with the primary key (a, b)
SecondSchema ==
    SchemaClass("SecondSchema", <<"a", "b">>,
        [c \in {"a", "b"} |-> Int64(TRUE, FALSE, NoBound, NoBound, NoBound, NoBound)],
        <<>>)

\* a member schema without a primary key
ThirdSchema ==
    SchemaClass("ThirdSchema", <<"a">>,
        [c \in {"a"} |-> Int64(FALSE, TRUE, NoBound, NoBound, Bound(1), NoBound)],
        <<>>)

\* MemberInfo
MemberInfo(name, s, is_optional, ignored_in_filters) ==
    [name |-> name, schema |-> s, is_optional |-> is_optional,
     ignored_in_filters |-> ignored_in_filters]

\* a filter of a collection: its name and what its logic computes
CollectionFilter(name, logic, arg) == [name |-> name, logic |-> logic, arg |-> arg]

CollectionClass(members, filters) == [members |-> members, filters |-> filters]

\* the members of the collections of the model
Members ==
    <<MemberInfo("first", FirstSchema, FALSE, FALSE),
      MemberInfo("second", SecondSchema, FALSE, FALSE),
      MemberInfo("third", ThirdSchema, TRUE, TRUE)>>

\* self.first.join(self.second, on="a")
FirstJoinSecond == CollectionFilter("first_has_second", "first_join_second", 0)

\* self.first.filter(pl.col("a") > 1)
FirstGreater == CollectionFilter("first_greater", "first_gt", 1)

Collections ==
    {CollectionClass(Members, f) :
        f \in {<<>>, <<FirstJoinSecond>>, <<FirstGreater>>, <<FirstJoinSecond, FirstGreater>>}}

\* cls.members()[name]
MemberNamed(c, name) ==
    CHOOSE m \in {c.members[i] : i \in Indices(c.members)} : m.name = name

\* required_members
required_members(c) ==
    {c.members[i].name : i \in {j \in Indices(c.members) : ~c.members[j].is_optional}}

\* common_primary_keys: the primary key columns that all members which are
\* not ignored in filters share
common_primary_keys(c) ==
    {k \in {"a", "b"} :
        \A i \in Indices(c.members) :
            ~c.members[i].ignored_in_filters =>
                \E j \in Indices(primary_keys(c.members[i].schema)) :
                    primary_keys(c.members[i].schema)[j] = k}

\* the members that Collection.filter filters: all but the optional ones
\* that the input leaves out
FilteredMembers(c, data) ==
    {c.members[i].name :
        i \in {j \in Indices(c.members) :
                  ~(c.members[j].is_optional /\ c.members[j].name \notin DOMAIN data)}}

\* member.schema.filter(data[member_name], cast=cast) of every member; the
\* member schemas have no group rule, so no join reorders their rows
MemberResults(c, data, docast) ==
    [n \in FilteredMembers(c, data) |->
        filter(MemberNamed(c, n).schema, data[n], docast, Identity(Len(data[n].rows)))]

\* the value of the primary key columns in a row
KeyOf(row, pks) == [k \in pks |-> row.v[k]]

\* the keys of the rows the members that take part in filters keep
ResultKeys(c, results, pks) ==
    UNION {{KeyOf(results[n].result[i], pks) : i \in Indices(results[n].result)} :
              n \in {m \in DOMAIN results : ~MemberNamed(c, m).ignored_in_filters}}

\* filter.logic(result_cls).select(primary_keys): how many rows the frame
\* the logic returns has for the key
KeepCount(f, results, pks, key) ==
    LET first == results["first"].result
        second == results["second"].result
    IN  IF f.logic = "first_join_second"
        THEN Cardinality({p \in Indices(first) \X Indices(second) :
                             /\ ~IsNull(first[p[1]].v["a"])
                             /\ first[p[1]].v["a"] = second[p[2]].v["a"]
                             /\ KeyOf(first[p[1]], pks) = key})
        ELSE Cardinality({i \in Indices(first) :
                             /\ Gt3(first[i].v["a"], IntV(f.arg)) = "T"
                             /\ KeyOf(first[i], pks) = key})

\* keep: for every filter, the rows per key of its frame
Keep(c, results, pks) ==
    [i \in Indices(c.filters) |->
        [key \in ResultKeys(c, results, pks) |-> KeepCount(c.filters[i], results, pks, key)]]

RECURSIVE JoinAllInnerFrom(_, _, _)
\* join_all_inner on the keys: the rows the inner join of the frames from
\* the given one on has for the key
JoinAllInnerFrom(keep, from, key) ==
    IF from > Len(keep) THEN 1
    ELSE keep[from][key] * JoinAllInnerFrom(keep, from + 1, key)

\* all_keep
AllKeep(keep, keys) == [key \in keys |-> JoinAllInnerFrom(keep, 1, key)]

\* a frame whose rows each occur once, its row order left out
OnceEach(rows) == [r \in {rows[i] : i \in Indices(rows)} |-> 1]

\* a key that matches in a join: none of its values is null
Joinable(key) == \A k \in DOMAIN key : ~IsNull(key[k])

\* filtered.join(all_keep, on=primary_keys): every row of filtered once per
\* row of all_keep with its key, in an order the join does not specify
JoinKeep(filtered, all_keep, pks) ==
    [r \in {filtered[i] :
               i \in {j \in Indices(filtered) :
                         /\ Joinable(KeyOf(filtered[j], pks))
                         /\ all_keep[KeyOf(filtered[j], pks)] > 0}} |->
        all_keep[KeyOf(r, pks)]]

\* the rows of filtered that some filter drops, with the outcome of every
\* filter: false where the anti-join keeps the key, null filled with true
NewFailures(c, filtered, keep, pks) ==
    [r \in {[id |-> filtered[i].id, v |-> filtered[i].v,
             out |-> [n \in {c.filters[j].name : j \in Indices(c.filters)} |->
                         IF \E j \in Indices(c.filters) :
                                /\ c.filters[j].name = n
                                /\ keep[j][KeyOf(filtered[i], pks)] = 0
                         THEN "F" ELSE "T"]] :
               i \in {j \in Indices(filtered) :
                         /\ Joinable(KeyOf(filtered[j], pks))
                         /\ \E k \in Indices(keep) : keep[k][KeyOf(filtered[j], pks)] = 0}} |-> 1]

\* the FailureInfo of a member: the failure of its schema, then the rows
\* the filters drop
MemberFailure(failure, new_failures, new_failure_names) ==
    [rows |-> failure.rows, filter_rows |-> new_failures,
     rule_columns |-> failure.rule_columns \o new_failure_names]

\* what Collection.filter returns or raises
CollectionResult(error, columns, members, failures) ==
    [error |-> error, columns |-> columns, members |-> members, failures |-> failures]

\* Collection.filter once the filter frames are known
ApplyFilters(c, results, keep, all_keep, pks) ==
    CollectionResult("none", {},
        [n \in DOMAIN results |->
            IF Len(c.filters) > 0 /\ ~MemberNamed(c, n).ignored_in_filters
            THEN JoinKeep(results[n].result, all_keep, pks)
            ELSE OnceEach(results[n].result)],
        [n \in DOMAIN results |->
            IF Len(c.filters) > 0 /\ ~MemberNamed(c, n).ignored_in_filters
            THEN MemberFailure(results[n].failure,
                               NewFailures(c, results[n].result, keep, pks),
                               [j \in Indices(c.filters) |-> c.filters[j].name])
            ELSE MemberFailure(results[n].failure, <<>>, <<>>)])

\* Collection.filter once every member has been filtered by its schema
FilterMembers(c, results, keep, pks) ==
    IF \E n \in DOMAIN results : results[n].error # "none"
    THEN LET n == CHOOSE m \in DOMAIN results :
                      /\ results[m].error # "none"
                      /\ \A i, j \in Indices(c.members) :
                             (c.members[j].name = m /\ i < j /\ c.members[i].name \in DOMAIN results)
                                 => results[c.members[i].name].error = "none"
         IN  CollectionResult(results[n].error, results[n].columns, <<>>, <<>>)
    ELSE ApplyFilters(c, results, keep,
                      AllKeep(keep, ResultKeys(c, results, pks)), pks)

\* Collection.filter once the input keys are validated
FilterValidated(c, results, pks) ==
    FilterMembers(c, results,
                  IF \E n \in DOMAIN results : results[n].error # "none"
                  THEN <<>> ELSE Keep(c, results, pks),
                  pks)

\* Collection.filter
collection_filter(c, data, docast) ==
    IF required_members(c) \ DOMAIN data # {}
    THEN CollectionResult("ValueError", required_members(c) \ DOMAIN data, <<>>, <<>>)
    ELSE FilterValidated(c, MemberResults(c, data, docast), common_primary_keys(c))

\* the frames passed for the members
MemberFrames(columns, max) == FramesWith([c \in columns |-> "Int64"], max)

CollectionInputs ==
    {[n \in {"first", "second"} |-> IF n = "first" THEN f ELSE s] :
        f \in MemberFrames({"a"}, MaxMemberRows), s \in MemberFrames({"a", "b"}, MaxMemberRows)}
    \cup {[n \in {"first", "second", "third"} |->
              IF n = "first" THEN f ELSE IF n = "second" THEN s ELSE t] :
             f \in MemberFrames({"a"}, MaxMemberRows),
             s \in MemberFrames({"a", "b"}, MaxMemberRows),
             t \in MemberFrames({"a"}, 1)}
    \cup {[n \in {"first"} |-> f] : f \in MemberFrames({"a"}, MaxMemberRows)}

CollectionInit ==
    /\ schema \in Collections
    /\ df \in CollectionInputs
    /\ cast = FALSE
    /\ args = NoArgs
    /\ options = default_options
    /\ sampler = Idle
    /\ pc = "start"
    /\ ret = NoRet

\* collection.filter(data, cast=cast)
CollectionFilterCall ==
    /\ pc = "start"
    /\ ret' = [op |-> "collection_filter", r |-> collection_filter(schema, df, cast)]
    /\ pc' = "filtered"
    /\ UNCHANGED <<schema, df, cast, args, options, sampler>>

\* len(fail): the rows of a FailureInfo, those its schema dropped and those
\* the filters of the collection dropped
MemberFailureLen(fail) == FailureLen(fail) + Cardinality(DOMAIN fail.filter_rows)

\* MemberValidationError(errors)
MemberValidationError(errors) ==
    CollectionResult("MemberValidationError", {}, <<>>, errors)

\* Collection.validate once Collection.filter has returned or raised
ValidateFiltered(r) ==
    IF r.error # "none" THEN r
    ELSE IF \E n \in DOMAIN r.failures : MemberFailureLen(r.failures[n]) > 0
         THEN MemberValidationError([n \in DOMAIN r.failures |-> r.failures[n]])
         ELSE r

\* Collection.validate
collection_validate(c, data, docast) ==
    ValidateFiltered(collection_filter(c, data, docast))

\* collection.validate(data, cast=cast)
CollectionValidateCall ==
    /\ pc = "start"
    /\ ret' = [op |-> "collection_validate", r |-> collection_validate(schema, df, cast)]
    /\ pc' = "validated"
    /\ UNCHANGED <<schema, df, cast, args, options, sampler>>

CollectionNext == CollectionFilterCall \/ CollectionValidateCall

CollectionSpec == CollectionInit /\ [][CollectionNext]_vars

----------------------------------------------------------------------------
(* Ordinal columns *)

\* the bounds a column is declared with: none, a negative one, zero and a
\* positive one
DeclaredBounds == {NoBound, Bound(-1), Bound(0), Bound(1)}

\* OrdinalMixin.__init__: the bounds that cannot be declared together
OrdinalInitRaises(min, min_exclusive, max, max_exclusive) ==
    \/ min.set /\ min_exclusive.set
    \/ max.set /\ max_exclusive.set
    \/ min.set /\ max.set /\ min.v > max.v
    \/ min_exclusive.set /\ max.set /\ min_exclusive.v >= max.v
    \/ min.set /\ max_exclusive.set /\ min.v >= max_exclusive.v
    \/ min_exclusive.set /\ max_exclusive.set /\ min_exclusive.v >= max_exclusive.v

\* a schema with the one nullable integer column a
BoundedSchema(column) ==
    SchemaClass("BoundedSchema", <<"a">>, [c \in {"a"} |-> column], <<>>)

\* the frames with the integer column a and at most one row
BoundedFrames ==
    {[dtypes |-> [c \in {"a"} |-> "Int64"], rows |-> r] :
        r \in {<<>>} \cup {<<[c \in {"a"} |-> x]>> : x \in {NullV} \cup {IntV(n) : n \in -2..1}}}

BoundedInit ==
    /\ schema = NoClass
    /\ df \in BoundedFrames
    /\ cast = FALSE
    /\ args \in [min : DeclaredBounds, min_exclusive : DeclaredBounds,
                 max : DeclaredBounds, max_exclusive : DeclaredBounds]
    /\ options = default_options
    /\ sampler = Idle
    /\ pc = "column"
    /\ ret = NoRet

\* class BoundedSchema(dy.Schema): a = dy.Int64(min=..., min_exclusive=...,
\* max=..., max_exclusive=...)
DeclareColumn ==
    /\ pc = "column"
    /\ IF OrdinalInitRaises(args.min, args.min_exclusive, args.max, args.max_exclusive)
       THEN /\ schema' = schema
            /\ pc' = "raised"
            /\ ret' = [op |-> "column",
                       r |-> Result("ValueError", {}, NoFrame, EmptyFailure, <<>>)]
       ELSE /\ schema' = BoundedSchema(Int64(FALSE, TRUE, args.min, args.min_exclusive,
                                             args.max, args.max_exclusive))
            /\ pc' = "start"
            /\ ret' = ret
    /\ UNCHANGED <<df, cast, args, options, sampler>>

BoundedNext == DeclareColumn \/ Filter \/ Validate

BoundedSpec == BoundedInit /\ [][BoundedNext]_vars

----------------------------------------------------------------------------
(* Sequences of calls on one schema *)

\* the custom rules of the class after a call, had _build_rules compiled
\* them in place: the mapping the call updated is the class's own
CustomAfterCallInPlace(custom, rules) == rules

\* the custom rules of the class after a call that compiled them into rules
\* and updated rules in place: _build_rules works on a copy, so the mapping
\* of the class is not the one that was updated
CustomAfterCall(custom, rules) == custom

CallSchemas == {MySchema, NoRuleSchema, MyComplexSchema}

\* the arguments of the sample calls, and whether a call with cast=True has
\* been made on the schema
CallArgs(num_rows, overrides) ==
    [num_rows |-> num_rows, overrides |-> overrides, cast_seen |-> FALSE]

CallsInit ==
    /\ schema \in CallSchemas
    /\ \/ /\ df \in Frames(MaxRows)
          /\ args = CallArgs(NoArgs.num_rows, NoArgs.overrides)
       \/ /\ df = NoFrameInput
          /\ schema \in {MySchema, NoRuleSchema}
          /\ args \in {CallArgs(n, o) : n \in NumRows, o \in Overrides}
    /\ cast = FALSE
    /\ options = default_options
    /\ sampler = Idle
    /\ pc = "start"
    /\ ret = NoRet

\* schema.filter(df, cast=c)
CallFilter ==
    /\ pc = "start"
    /\ \E c \in BOOLEAN : \E order \in JoinOrders(schema, Len(df.rows)) :
          \E raw \in {filter_raw(schema, df, ValidationRules(schema), c, order)} :
             /\ ret' = [op |-> "filter", r |-> FilterResult(raw)]
             /\ schema' = [schema EXCEPT !.rules = CustomAfterCall(schema.rules, raw.rules)]
             /\ cast' = c
             /\ args' = [args EXCEPT !.cast_seen = @ \/ c]
    /\ pc' = "filter"
    /\ UNCHANGED <<df, options, sampler>>

\* schema.validate(df, cast=c)
CallValidate ==
    /\ pc = "start"
    /\ \E c \in BOOLEAN : \E order \in JoinOrders(schema, Len(df.rows)) :
          \E raw \in {filter_raw(schema, df, ValidationRules(schema), c, order)} :
             /\ ret' = [op |-> "validate", r |-> ValidateResult(schema, c, FilterResult(raw))]
             /\ schema' = [schema EXCEPT !.rules = CustomAfterCall(schema.rules, raw.rules)]
             /\ cast' = c
             /\ args' = [args EXCEPT !.cast_seen = @ \/ c]
    /\ pc' = "validate"
    /\ UNCHANGED <<df, options, sampler>>

\* the caller drops what the call returned and goes on to its next call
NextCall ==
    /\ pc \in {"filter", "validate", "sampled", "raised"}
    /\ pc' = "start"
    /\ ret' = NoRet
    /\ cast' = FALSE
    /\ sampler' = Idle
    /\ UNCHANGED <<schema, df, args, options>>

CallsNext ==
    \/ CallFilter
    \/ CallValidate
    \/ SampleBegin
    \/ SampleRound
    \/ SampleExhausted
    \/ SampleReturn
    \/ NextCall

CallsSpec == CallsInit /\ [][CallsNext]_vars

----------------------------------------------------------------------------
(* Config *)

MaxDepth == 2       \* deepest nesting of Config contexts
NumConfigs == 2     \* Config objects the program constructs

\* the values max_sampling_iterations is set to
IterationValues == 1..MaxIter

\* the dictionaries in memory: dictionary c is the _local_options of Config
\* object c, the others are the dictionaries default_options() returns
ConfigObjects == 1..NumConfigs
Dicts == 1..(NumConfigs + MaxDepth + 2)

\* Config.__init__: {**default_options(), **options}
Config_init(iterations) == [max_sampling_iterations |-> iterations]

\* the state of the Config class: the dictionary Config.options refers to,
\* the dictionaries Config._stack refers to, and what every dictionary holds
ConfigState(current, stack, heap) == [options |-> current, stack |-> stack, heap |-> heap]

\* a dictionary nothing refers to, for a new dictionary
FreshDict(config) ==
    CHOOSE d \in Dicts \ ConfigObjects :
        /\ d # config.options
        /\ \A i \in Indices(config.stack) : config.stack[i] # d
        /\ \A e \in Dicts \ ConfigObjects :
               (e # config.options /\ \A i \in Indices(config.stack) : config.stack[i] # e)
                   => d <= e

\* Config.__enter__: Config.options becomes the _local_options dictionary
\* of the object itself
Config_enter(config, c) ==
    ConfigState(c, Append(config.stack, config.options), config.heap)

\* Config.__exit__
Config_exit(config) ==
    ConfigState(config.stack[Len(config.stack)],
                SubSeq(config.stack, 1, Len(config.stack) - 1),
                config.heap)

\* Config.set_max_sampling_iterations: an item assignment on the dictionary
\* Config.options refers to
set_max_sampling_iterations(config, iterations) ==
    ConfigState(config.options, config.stack,
                [config.heap EXCEPT ![config.options] =
                    [@ EXCEPT !.max_sampling_iterations = iterations]])

\* Config.restore_defaults: Config.options becomes a new dictionary
restore_defaults(config) ==
    ConfigState(FreshDict(config), config.stack,
                [config.heap EXCEPT ![FreshDict(config)] = default_options])

\* Config.options as a reader such as Schema.sample sees it
ActiveOptions(config) == config.heap[config.options]

\* what the last call was, on which Config object, and the options that were
\* active before every entry that has not been exited yet
ConfigCall(op, c, constructed, before, expected) ==
    [op |-> op, config |-> c, constructed |-> constructed, before |-> before,
     expected |-> expected]

ConfigInit ==
    /\ schema = NoClass
    /\ df = NoFrameInput
    /\ cast = FALSE
    /\ args \in [ConfigObjects -> IterationValues]
    /\ options = ConfigState(NumConfigs + 1, <<>>,
                             [d \in Dicts |->
                                 IF d \in ConfigObjects THEN Config_init(args[d])
                                 ELSE default_options])
    /\ sampler = Idle
    /\ pc = "config"
    /\ ret = ConfigCall("none", 0, args, <<>>, default_options)

\* with c: / a call of a function decorated with c
ConfigEnter ==
    /\ Len(options.stack) < MaxDepth
    /\ \E c \in ConfigObjects :
          /\ options' = Config_enter(options, c)
          /\ ret' = ConfigCall("enter", c, ret.constructed,
                               Append(ret.before, ActiveOptions(options)), ret.expected)
    /\ pc' = "enter"
    /\ UNCHANGED <<schema, df, cast, args, sampler>>

\* the end of a with block or of a decorated call
ConfigExit ==
    /\ Len(options.stack) > 0
    /\ options' = Config_exit(options)
    /\ ret' = ConfigCall("exit", 0, ret.constructed,
                         SubSeq(ret.before, 1, Len(ret.before) - 1),
                         ret.before[Len(ret.before)])
    /\ pc' = "exit"
    /\ UNCHANGED <<schema, df, cast, args, sampler>>

\* Config.set_max_sampling_iterations(iterations)
ConfigSet ==
    /\ \E iterations \in IterationValues :
          options' = set_max_sampling_iterations(options, iterations)
    /\ ret' = ConfigCall("set", 0, ret.constructed, ret.before, ret.expected)
    /\ pc' = "set"
    /\ UNCHANGED <<schema, df, cast, args, sampler>>

\* Config.restore_defaults()
ConfigRestore ==
    /\ options' = restore_defaults(options)
    /\ ret' = ConfigCall("restore", 0, ret.constructed, ret.before, ret.expected)
    /\ pc' = "restore"
    /\ UNCHANGED <<schema, df, cast, args, sampler>>

ConfigNext == ConfigEnter \/ ConfigExit \/ ConfigSet \/ ConfigRestore

ConfigSpec == ConfigInit /\ [][ConfigNext]_vars

----------------------------------------------------------------------------
(* Filtering the output of filter *)

\* the frame Schema.filter returns: the valid rows with the columns and the
\* dtypes of the schema
ValidFrame(s, result) == SchemaFrame(s, [i \in Indices(result) |-> result[i].v])

\* df_valid, failures = schema.filter(df_valid, cast=cast), with the frame
\* the first call returned
Refilter ==
    /\ pc = "filter"
    /\ ret.r.error = "none"
    /\ df' = ValidFrame(schema, ret.r.result)
    /\ \E order \in JoinOrders(schema, Len(ret.r.result)) :
          ret' = [op |-> "filter", r |-> filter(schema, df', cast, order)]
    /\ pc' = "refiltered"
    /\ UNCHANGED <<schema, cast, args, options, sampler>>

RefilterNext == Filter \/ Refilter

RefilterSpec == Init /\ [][RefilterNext]_vars

----------------------------------------------------------------------------
(* Lazy rules *)

\* @dy.rule(lazy=True): a row rule that keeps its function
LazyRule(name, expr, col, arg) == MkRule(name, "row", {}, TRUE, expr, col, arg)

\* @dy.rule(group_by=..., lazy=True): a group rule that keeps its function
LazyGroupRule(name, expr, col, arg, group_columns) ==
    MkRule(name, "group", group_columns, TRUE, expr, col, arg)

\* a lazy row rule over both columns
LazyRowSchema ==
    SchemaClass("LazyRowSchema", <<"a", "b">>,
        [c \in {"a", "b"} |-> Int64(FALSE, TRUE, NoBound, NoBound, NoBound, NoBound)],
        <<LazyRule("b_greater_a", "b_greater_a", "", 0)>>)

\* a row rule given as an expression and a lazy group rule
LazyGroupSchema ==
    SchemaClass("LazyGroupSchema", <<"a", "b">>,
        [c \in {"a", "b"} |-> Int64(FALSE, TRUE, NoBound, NoBound, NoBound, NoBound)],
        <<Rule("b_greater_a", "b_greater_a", "", 0),
          LazyGroupRule("b_unique_within_a", "n_unique_eq", "b", 1, {"a"})>>)

LazySchemas == {MySchema, MyComplexSchema, LazyRowSchema, LazyGroupSchema}

LazyInit ==
    /\ schema \in LazySchemas
    /\ df \in Frames(1)
    /\ cast \in BOOLEAN
    /\ args = NoArgs
    /\ options = default_options
    /\ sampler = Idle
    /\ pc = "start"
    /\ ret = NoRet

LazyNext == Filter \/ Validate

LazySpec == LazyInit /\ [][LazyNext]_vars

----------------------------------------------------------------------------
(* Properties of filter and validate *)

Returned == ret.r

FilterReturned == pc = "filter" /\ Returned.error = "none"

InputIds == 1..Len(df.rows)

ValidIds == {Returned.result[i].id : i \in Indices(Returned.result)}

FailureIds == {Returned.failure.rows[i].id : i \in Indices(Returned.failure.rows)}

\* the rule dictionary of the call, with the dtype rules when casting
CallRules ==
    IF cast THEN DictUpdate(ValidationRules(schema), dtype_rules(schema))
    ELSE ValidationRules(schema)

\* the rows of the input after the schema check and the cast, in input order
CheckedRows == validate_schema(schema, df, IF cast THEN "lenient" ELSE "none").rows

\* the expression of a rule for input row k, before any fill_null
RawOutcome(rule, k) ==
    IF rule.kind = "group"
    THEN AggExpr(rule, CheckedRows, GroupOf(rule, CheckedRows, k))
    ELSE RowExpr(schema, rule, CheckedRows, k)

\* the evaluated table of the call when the joins keep the input order: row
\* k holds the rule columns of input row k
EvaluatedInOrder ==
    filter_raw(schema, df, ValidationRules(schema), cast, Identity(Len(df.rows))).evaluated

\* the lenient cast of column c fails in input row k
CastFails(k, c) ==
    /\ c \in DtypeMismatches(schema, df)
    /\ ~IsNull(df.rows[k][c])
    /\ IsNull(CastLenient(df.rows[k][c]))

RECURSIVE IsSubsequenceFrom(_, _, _, _)
\* the values xs[i..] occur in ys[j..] in the same relative order
IsSubsequenceFrom(xs, i, ys, j) ==
    IF i > Len(xs) THEN TRUE
    ELSE IF j > Len(ys) THEN FALSE
    ELSE IF xs[i] = ys[j] THEN IsSubsequenceFrom(xs, i + 1, ys, j + 1)
    ELSE IsSubsequenceFrom(xs, i, ys, j + 1)

\* C1: the rows of the valid subset returned by filter appear in the same
\* relative order as in the input: they are a subsequence of the input rows
C1_ValidSubsetKeepsInputOrder ==
    FilterReturned =>
        IsSubsequenceFrom(ValuesIn(Returned.result), 1, ValuesIn(CheckedRows), 1)

\* C2: filter partitions the input: every input row is in exactly one of the
\* valid subset and the failure info, it is valid iff all its rule outcomes
\* are true or null, and the two parts together have as many rows as the input
C2_FilterPartitionsInput ==
    FilterReturned =>
        /\ Len(Returned.result) + FailureLen(Returned.failure) = Len(df.rows)
        /\ ValidIds \cup FailureIds = InputIds
        /\ ValidIds \cap FailureIds = {}
        /\ LET evaluated == EvaluatedInOrder
           IN  \A k \in InputIds :
                  k \in ValidIds <=>
                      \/ evaluated = NoFrame
                      \/ \A n \in DOMAIN evaluated[k].out : evaluated[k].out[n] \in {"T", "N"}

\* C2 witness: a filter call that returned valid rows and failing rows
C2_Witness ==
    /\ FilterReturned
    /\ Len(Returned.result) > 0
    /\ FailureLen(Returned.failure) > 0

\* C3: with cast=True a row with a failed cast of column X is removed, its
\* "X|dtype" outcome is false and all its non-dtype outcomes are null
C3_CastFailureSuppression ==
    (FilterReturned /\ cast) =>
        \A k \in InputIds : \A c \in DOMAIN schema.columns :
            CastFails(k, c) =>
                /\ k \notin ValidIds
                /\ \E i \in Indices(Returned.failure.rows) :
                      LET f == Returned.failure.rows[i]
                      IN  /\ f.id = k
                          /\ f.out[c \o "|dtype"] = "F"
                          /\ \A j \in Indices(CallRules) :
                                ~IsDtypeRule(CallRules[j]) =>
                                    f.out[CallRules[j].name] = "N"

\* C3 witness: a casting filter call on a frame with a failed cast in a row
\* that also has a duplicated primary key
C3_Witness ==
    /\ FilterReturned
    /\ cast
    /\ schema = MySchema
    /\ \E k \in InputIds :
          /\ CastFails(k, "a")
          /\ IsDuplicated(schema, CheckedRows, k)

\* C4: a rule whose expression is null for a row (or for its group) neither
\* counts the row as a failure of the rule nor removes the row
C4_NullIsValid ==
    FilterReturned =>
        \A k \in InputIds : \A j \in Indices(CallRules) :
            RawOutcome(CallRules[j], k) = "N" =>
                /\ \A i \in Indices(Returned.failure.rows) :
                      Returned.failure.rows[i].id = k =>
                          Returned.failure.rows[i].out[CallRules[j].name] # "F"
                /\ (\A j2 \in Indices(CallRules) :
                        RawOutcome(CallRules[j2], k) # "F") => k \in ValidIds

\* C4 witness: a returned valid row for which a group rule's aggregate and a
\* row rule's expression are null
C4_Witness ==
    /\ FilterReturned
    /\ \E k \in ValidIds : \E j, j2 \in Indices(CallRules) :
          /\ CallRules[j].kind = "group"
          /\ RawOutcome(CallRules[j], k) = "N"
          /\ CallRules[j2].kind = "row"
          /\ RawOutcome(CallRules[j2], k) = "N"

ValidateReturned == pc = "validate"

\* the rule names and counts an error carries, as pairs
ErrorCounts(e) ==
    {<<n, e.schema_errors[n]>> : n \in DOMAIN e.schema_errors}
        \cup UNION {{<<c \o "|" \o r, e.column_errors[c][r]>> : r \in DOMAIN e.column_errors[c]} :
                       c \in DOMAIN e.column_errors}

\* validate raises a rule-validation error iff filter on the same input has
\* a failing row, and the error carries filter's per-rule failure counts
ValidateRaisesWithFilterCounts ==
    ValidateReturned =>
        LET filtered == filter(schema, df, cast, Identity(Len(df.rows)))
            failing == filtered.error = "none" /\ FailureLen(filtered.failure) > 0
            expected == counts(filtered.failure)
        IN  /\ (Returned.error = "RuleValidationError") <=> failing
            /\ failing =>
                  ErrorCounts(Returned.errors) = {<<n, expected[n]>> : n \in DOMAIN expected}
            /\ (filtered.error = "none" /\ ~failing) => Returned.error = "none"

\* when no row fails, validate returns all input rows in input order
ValidateReturnsInputInOrder ==
    (ValidateReturned /\ Returned.error = "none") =>
        ValuesIn(Returned.result) = ValuesIn(CheckedRows)

\* C5: validate raises a rule-validation error iff filter on the same input
\* yields a failing row, the error carries exactly the failure counts of the
\* rules that failed, and without failures validate returns all input rows
\* unchanged in order
C5_ValidateMatchesFilter ==
    ValidateRaisesWithFilterCounts /\ ValidateReturnsInputInOrder

\* the schema columns the input frame lacks
InputMissing == {c \in DOMAIN schema.columns : c \notin DOMAIN df.dtypes}

\* the schema columns the input frame holds with another dtype
InputMismatching ==
    {c \in DOMAIN schema.columns :
        c \in DOMAIN df.dtypes /\ df.dtypes[c] # schema.columns[c].dtype}

\* C6: a missing schema column, or without cast a column of another dtype,
\* makes filter and validate raise a structural error instead of returning
\* failure info, and the dtype error names every mismatching column
C6_StructuralErrorsRaised ==
    (pc \in {"filter", "validate"}) =>
        /\ InputMissing # {} =>
              /\ Returned.error = "ValidationError"
              /\ Returned.columns = InputMissing
              /\ Returned.result = NoFrame
              /\ Returned.failure = EmptyFailure
        /\ (InputMissing = {} /\ ~cast /\ InputMismatching # {}) =>
              /\ Returned.error = "DtypeValidationError"
              /\ Returned.columns = InputMismatching
              /\ Returned.result = NoFrame
              /\ Returned.failure = EmptyFailure

\* C6 witness: a call without cast on a frame with rows whose two columns
\* both have another dtype than the schema's
C6_Witness ==
    /\ pc \in {"filter", "validate"}
    /\ ~cast
    /\ InputMissing = {}
    /\ Cardinality(InputMismatching) = 2
    /\ Len(df.rows) > 0
    /\ Returned.error = "DtypeValidationError"

----------------------------------------------------------------------------
(* Properties of sample *)

SampleReturned == pc = "sampled"

\* the number of rows the call asks for: num_rows, else the length of the
\* overrides, else 1; an empty overrides collection asks for what no
\* overrides ask for
RequestedRows ==
    IF args.num_rows.given THEN args.num_rows.n
    ELSE IF OverridesGiven(args.overrides) THEN Len(args.overrides.rows)
    ELSE 1

\* C7: whenever sample returns, the returned frame has exactly the requested
\* number of rows and filter finds no failing row in it
C7_SampleReturnsValidFrame ==
    SampleReturned =>
        LET again == filter(schema, SchemaFrame(schema, Returned.result), FALSE,
                            Identity(Len(Returned.result)))
        IN  /\ Len(Returned.result) = RequestedRows
            /\ again.error = "none"
            /\ FailureLen(again.failure) = 0
            /\ Len(again.result) = RequestedRows

\* C7 witness: sample returned two rows of a schema with rules after more
\* than one sampling round
C7_Witness ==
    /\ SampleReturned
    /\ Len(ValidationRules(schema)) > 0
    /\ sampler.sampling_rounds > 1
    /\ Len(Returned.result) = 2

\* the rounds run never exceed the budget, sample returns only a complete
\* result and gives up only after the last round of the budget
RoundsWithinBudget ==
    /\ sampler.sampling_rounds <= options.max_sampling_iterations
    /\ SampleReturned => Len(sampler.result) = sampler.num_rows
    /\ (pc = "raised" /\ sampler.sampling_rounds > 0) =>
          /\ sampler.sampling_rounds = options.max_sampling_iterations
          /\ Len(sampler.result) # sampler.num_rows

\* after a round sample returns if the result is complete, raises if it is
\* incomplete and the budget is used up, and runs one more round otherwise
LoopStep ==
    (pc = "loop") =>
        IF Len(sampler.result) = sampler.num_rows
        THEN pc' = "sampled" /\ sampler' = sampler
        ELSE IF sampler.sampling_rounds = options.max_sampling_iterations
        THEN pc' = "raised" /\ ret'.r.error = "ValueError" /\ sampler' = sampler
        ELSE pc' = "loop" /\ sampler'.sampling_rounds = sampler.sampling_rounds + 1

\* C8: for max_sampling_iterations = m >= 1 sample runs at most m rounds: it
\* returns as soon as a round leaves exactly num_rows rows, raises ValueError
\* exactly when the result is incomplete after the m-th round, and never
\* runs an (m+1)-th round
C8_SampleWithinBudget == [](RoundsWithinBudget) /\ [][LoopStep]_vars

\* C8 witness: sample gave up after using a budget of more than one round
C8_Witness ==
    /\ pc = "raised"
    /\ sampler.sampling_rounds = options.max_sampling_iterations
    /\ sampler.sampling_rounds > 1

\* C9: row i of the returned frame carries the values of override row i in
\* every overridden column
C9_OverridesKeepTheirRows ==
    (SampleReturned /\ OverridesGiven(args.overrides)) =>
        \A i \in Indices(args.overrides.rows) : \A c \in args.overrides.keys :
            Returned.result[i][c] = args.overrides.rows[i][c]

\* C10: sample raises ValueError and returns no frame when num_rows differs
\* from the number of override rows, also for overrides without rows, and
\* when an override names a column that is not in the schema
C10_OverridePreconditions ==
    (pc # "start" /\ args.overrides.layout # "none") =>
        /\ (args.num_rows.given /\ args.num_rows.n # Len(args.overrides.rows)) =>
              (pc = "raised" /\ Returned.error = "ValueError" /\ sampler.sampling_rounds = 0)
        /\ ~(args.overrides.keys \subseteq DOMAIN schema.columns) =>
              (pc = "raised" /\ Returned.error = "ValueError" /\ sampler.sampling_rounds = 0)

----------------------------------------------------------------------------
(* Properties of group rules, failure info and primary keys *)

\* the input rows that fail no row-level rule of the call
RowValidIds ==
    {k \in InputIds :
        \A j \in Indices(CallRules) :
            CallRules[j].kind = "row" => RawOutcome(CallRules[j], k) # "F"}

\* the aggregate of a group rule for input row k over the rows of its group
\* that fail no row-level rule
OutcomeOverRowValid(rule, k) ==
    AggExpr(rule, CheckedRows, GroupOf(rule, CheckedRows, k) \cap RowValidIds)

\* C11: group rules are evaluated only over the rows that pass all row-level
\* rules: a row that passes them is kept iff no group rule is false for the
\* row-valid rows of its group
C11_GroupRulesAfterRowRules ==
    FilterReturned =>
        \A k \in RowValidIds :
            k \in ValidIds <=>
                \A j \in Indices(CallRules) :
                    CallRules[j].kind = "group" =>
                        OutcomeOverRowValid(CallRules[j], k) # "F"

\* C12: with cast=True every row of the failure info carries the original,
\* pre-cast value of each schema column of its input row; a value whose cast
\* failed is reported as it was, not as null
C12_FailureInfoKeepsOriginalValues ==
    (FilterReturned /\ cast) =>
        \A i \in Indices(Returned.failure.rows) :
            \A c \in DOMAIN schema.columns :
                Returned.failure.rows[i].v[c] = df.rows[Returned.failure.rows[i].id][c]

\* some other row of the frame the rules see has the primary key of row k
SharesKey(k) ==
    \E j \in InputIds :
        /\ j # k
        /\ \A c \in DOMAIN schema.columns :
              schema.columns[c].primary_key => CheckedRows[j].v[c] = CheckedRows[k].v[c]

\* the failure info holds input row k with the given outcome of the rule
FailsWith(k, name, outcome) ==
    \E i \in Indices(Returned.failure.rows) :
        /\ Returned.failure.rows[i].id = k
        /\ Returned.failure.rows[i].out[name] = outcome

RECURSIVE SumOver(_, _)
SumOver(f, D) ==
    IF D = {} THEN 0
    ELSE LET x == CHOOSE y \in D : TRUE IN f[x] + SumOver(f, D \ {x})

SumOfValues(f) == SumOver(f, DOMAIN f)

\* C14: every row of the failure info fails at least one rule and lies in
\* exactly one co-occurrence bucket, the one of its exact set of failed rules,
\* so the co-occurrence counts sum to len(failure) and the per-rule counts to
\* at least len(failure); a rule without failures is in neither mapping.
C14_FailureInfoCountsConsistent ==
    FilterReturned =>
        LET failure == Returned.failure
            co == cooccurrence_counts(failure)
            per == counts(failure)
        IN  /\ \A i \in Indices(failure.rows) : FailedRules(failure, i) # {}
            /\ \A i \in Indices(failure.rows) :
                   Cardinality({S \in DOMAIN co : S = FailedRules(failure, i)}) = 1
            /\ SumOfValues(co) = FailureLen(failure)
            /\ SumOfValues(per) >= FailureLen(failure)
            /\ \A j \in Indices(failure.rule_columns) :
                   FailureCount(failure, failure.rule_columns[j]) = 0 =>
                       /\ failure.rule_columns[j] \notin DOMAIN per
                       /\ \A S \in DOMAIN co : failure.rule_columns[j] \notin S

C14_Witness ==
    /\ FilterReturned
    /\ FailureLen(Returned.failure) = 2
    /\ Cardinality(DOMAIN cooccurrence_counts(Returned.failure)) = 2
    /\ \E S \in DOMAIN cooccurrence_counts(Returned.failure) : Cardinality(S) = 2
    /\ \E j \in Indices(Returned.failure.rule_columns) :
           FailureCount(Returned.failure, Returned.failure.rule_columns[j]) = 0

----------------------------------------------------------------------------
(* Properties of the evaluated table *)

\* the call gets past the schema check: no column is missing and, without
\* cast, no dtype differs
PassesSchemaCheck == InputMissing = {} /\ (cast \/ InputMismatching = {})

\* what _filter_raw does in the call, the joins keeping the input order
RawInOrder == filter_raw(schema, df, ValidationRules(schema), cast, Identity(Len(df.rows)))

\* C22: in every filter and validate call that gets past the schema check
\* the evaluated table has one outcome column for each rule of the compiled
\* rule set, whether the rule is an expression or a lazy function, a row
\* rule or a group rule, with the dtype rules when casting, and the validity
\* column is the conjunction of all of them; the call raises no other error
\* than the rule-validation error of validate.
C22_OneOutcomeColumnPerRule ==
    (pc \in {"filter", "validate"} /\ PassesSchemaCheck) =>
        /\ Returned.error \in {"none", "RuleValidationError"}
        /\ RawInOrder.error = "none"
        /\ Len(CallRules) > 0 =>
               /\ ~RawInOrder.evaluated_is_none
               /\ \A i \in Indices(RawInOrder.evaluated) :
                      /\ DOMAIN RawInOrder.evaluated[i].out = Names(CallRules)
                      /\ RawInOrder.evaluated[i].final_valid
                             <=> \A n \in Names(CallRules) :
                                     RawInOrder.evaluated[i].out[n] # "F"

\* input rows j and k hold the same value, or both null, in every group
\* column of the rule
SharesGroup(rule, j, k) ==
    \A c \in rule.group_columns :
        \/ IsNull(CheckedRows[j].v[c]) /\ IsNull(CheckedRows[k].v[c])
        \/ /\ ~IsNull(CheckedRows[j].v[c])
           /\ ~IsNull(CheckedRows[k].v[c])
           /\ CheckedRows[j].v[c].v = CheckedRows[k].v[c].v

\* the aggregate of the rule over the rows that share the group of input row
\* k, a null aggregate counted as true
BroadcastOutcome(rule, k) ==
    FillNullTrue(AggExpr(rule, CheckedRows, {j \in InputIds : SharesGroup(rule, j, k)}))

NoCastFails(k) == \A c \in DOMAIN schema.columns : ~CastFails(k, c)

C24_RuleColumnsInInsertionOrder ==
    (FilterReturned /\ Len(CallRules) > 0) =>
        Returned.failure.columns = RuleNames(CallRules)

----------------------------------------------------------------------------
(* Properties of schemas without rules and of sequences of calls *)

NoRules == Len(ValidationRules(schema)) = 0

\* C25: for a schema whose compiled rule set is empty, filter with
\* cast=False returns every input row, in input order, with an empty failure
\* info without rule columns, and sample completes in exactly one round: it
\* never runs a second round, never gives up, and returns the requested
\* number of rows after its first round.
C25_NoRulesNothingFiltered ==
    NoRules =>
        /\ (pc = "filter" /\ ~cast /\ Returned.error = "none") =>
               /\ ValuesIn(Returned.result) = df.rows
               /\ Returned.failure = EmptyFailure
        /\ sampler.sampling_rounds <= 1
        /\ pc = "loop" => Len(sampler.result) = sampler.num_rows
        /\ (pc = "raised" /\ ret.op = "sample") => sampler.sampling_rounds = 0
        /\ pc = "sampled" =>
               /\ sampler.sampling_rounds = 1
               /\ Len(Returned.result) = RequestedRows

\* C25 witness: sample returned two rows with overrides for a schema without
\* rules
C25_Witness ==
    /\ NoRules
    /\ pc = "sampled"
    /\ OverridesGiven(args.overrides)
    /\ Len(Returned.result) = 2
    /\ sampler.sampling_rounds = 1

\* the class statement of the schema in use
DeclaredClass == CHOOSE s \in CallSchemas : s.name = schema.name

DtypeRuleNames == {c \o "|dtype" : c \in DOMAIN schema.columns}

SeqNames(names) == {names[i] : i \in Indices(names)}

\* C26: no sequence of filter, validate and sample calls, with or without
\* cast, changes the custom rules the schema declares, and a call with
\* cast=False evaluates exactly the rules compiled from the declared ones:
\* no <col>|dtype rule of an earlier call with cast=True is among them.
C26_DeclaredRulesUnchanged ==
    /\ schema.rules = DeclaredClass.rules
    /\ (pc = "filter" /\ ~cast /\ Returned.error = "none" /\ ~NoRules) =>
           /\ Returned.failure.rule_columns
                  = RuleNames(build_rules(DeclaredClass.rules, DeclaredClass))
           /\ SeqNames(Returned.failure.rule_columns) \cap DtypeRuleNames = {}
    /\ (pc = "validate" /\ ~cast /\ Returned.error = "RuleValidationError") =>
           \A e \in ErrorCounts(Returned.errors) : e[1] \notin DtypeRuleNames

\* C26 witness: a filter call without cast on a schema with custom rules,
\* after a call with cast=True on the same schema, that found failing rows
C26_Witness ==
    /\ pc = "filter"
    /\ ~cast
    /\ args.cast_seen
    /\ schema = MyComplexSchema
    /\ FailureLen(Returned.failure) > 0
    /\ Len(Returned.failure.rule_columns) = 2

----------------------------------------------------------------------------
(* Properties of Config *)

\* C29: entering a Config context activates exactly the options the Config
\* object was constructed with, whatever calls were made before, and exiting
\* restores the options that were active immediately before the entry.
C29_ConfigContextActivatesOwnOptions ==
    /\ pc = "enter" => ActiveOptions(options) = Config_init(ret.constructed[ret.config])
    /\ pc = "exit" => ActiveOptions(options) = ret.expected

----------------------------------------------------------------------------
(* Properties of class creation *)

\* the attributes of a class statement that declare something: those of the
\* bases and of the class body, without the ones Python reserves
RECURSIVE DeclaredBy(_)
DeclaredBy(kls) ==
    {kls.namespace[i] : i \in {j \in Indices(kls.namespace) : ~IsDunder(kls.namespace[j].attr)}}
    \cup UNION {DeclaredBy(kls.bases[i]) : i \in Indices(kls.bases)}

DeclaredColumnNames(kls) ==
    {IF e.alias # "" THEN e.alias ELSE e.attr :
        e \in {d \in DeclaredBy(kls) : d.kind = "column"}}

DeclaredRules(kls) == {d \in DeclaredBy(kls) : d.kind = "rule"}

\* the names of the rules the declared columns imply
ImpliedRuleNames(kls) ==
    (IF \E d \in DeclaredBy(kls) : d.kind = "column" /\ d.column.primary_key
     THEN {"primary_key"} ELSE {})
    \cup {c \o "|dtype" : c \in DeclaredColumnNames(kls)}
    \cup {(IF d.alias # "" THEN d.alias ELSE d.attr) \o "|nullability" :
             d \in {e \in DeclaredBy(kls) : e.kind = "column" /\ ~e.column.nullable}}

NameCollision(kls) ==
    DeclaredColumnNames(kls)
    \cap ({d.attr : d \in DeclaredRules(kls)} \cup ImpliedRuleNames(kls)) # {}

BadGroupReference(kls) ==
    \E d \in DeclaredRules(kls) :
        d.rule.kind = "group" /\ ~(d.rule.group_columns \subseteq DeclaredColumnNames(kls))

ReservedRuleName(kls) == \E d \in DeclaredRules(kls) : d.attr = "primary_key"

\* the schema in use has none of the three conditions
WellFormed(s) ==
    /\ DOMAIN s.columns
       \cap (Names(ValidationRules(s)) \cup Names(dtype_rules(s))) = {}
    /\ \A i \in Indices(s.rules) :
           /\ s.rules[i].kind = "group" => s.rules[i].group_columns \subseteq DOMAIN s.columns
           /\ s.rules[i].name # "primary_key"

\* C15: a class statement with a column named like a rule (the implied
\* primary_key, <col>|dtype and column rules included), with a group rule
\* over a column that is not in the schema, or with a custom rule named
\* primary_key raises ImplementationError and creates no class; filter and
\* validate only ever run on a class with none of these conditions.
C15_DefinitionChecksRaise ==
    /\ pc # "class" =>
           /\ (NameCollision(args) \/ BadGroupReference(args) \/ ReservedRuleName(args))
                  <=> pc = "raised"
           /\ pc = "raised" =>
                  /\ ret.op = "class"
                  /\ ret.r.error = "ImplementationError"
                  /\ schema = NoClass
    /\ pc \in {"start", "filter", "validate"} => WellFormed(schema)

C15_Witness ==
    /\ pc = "raised"
    /\ ret.op = "class"
    /\ BadGroupReference(args)
    /\ ~NameCollision(args)
    /\ ~ReservedRuleName(args)
    /\ ret.r.columns = {"c"}

\* the names of the column rules "<column>|<rule>" of the schema
ColumnRuleNames(s) ==
    UNION {Names(ColumnRules(s, s.column_names[i])) : i \in Indices(s.column_names)}

\* the name of the synthesized rule of the primary key, if there is one
PrimaryKeyRuleNames(s) == IF Len(primary_keys(s)) > 0 THEN {"primary_key"} ELSE {}

\* the class statement was accepted: the class exists
ClassAccepted == pc \in {"start", "filter", "validate"} /\ schema # NoClass

\* C21: in every accepted schema the names of the custom rules, of the
\* primary_key rule and of the column rules are pairwise distinct, and the
\* compiled rule set holds every custom rule under its own name with its own
\* expression, next to the primary_key rule and all column rules: no rule
\* replaces another.
C21_RuleNamesPairwiseDistinct ==
    (ClassAccepted /\ schema.name = "Declared") =>
        /\ Names(schema.rules) \cap PrimaryKeyRuleNames(schema) = {}
        /\ Names(schema.rules) \cap ColumnRuleNames(schema) = {}
        /\ PrimaryKeyRuleNames(schema) \cap ColumnRuleNames(schema) = {}
        /\ \A i \in Indices(schema.rules) :
               RuleNamed(ValidationRules(schema), schema.rules[i].name) = schema.rules[i]
        /\ Len(ValidationRules(schema))
               = Len(schema.rules) + Cardinality(PrimaryKeyRuleNames(schema))
                   + Cardinality(ColumnRuleNames(schema))

----------------------------------------------------------------------------
(* Properties of reading stored data *)

\* the source's stored schema, as the reader obtains it, matches
StoredSchemaMatches == serialized_schema(args.source) = "match"

ReadReturnsStoredData ==
    /\ ret.r.error = "none"
    /\ Len(ret.r.result) = Len(df.rows)
    /\ \A i \in Indices(df.rows) : ret.r.result[i].v = df.rows[i]

\* C16: a read of a source whose stored schema matches never calls validate,
\* whatever the mode; otherwise skip returns the stored data without
\* validating, forbid raises ValidationRequiredError and returns nothing,
\* allow calls validate(cast=True) exactly once without a warning, and warn
\* does the same and emits a warning.
C16_ReadValidationModes ==
    pc = "read" =>
        /\ StoredSchemaMatches =>
               /\ ret.validate_calls = 0
               /\ ret.warnings = 0
               /\ ReadReturnsStoredData
        /\ ~StoredSchemaMatches =>
               /\ args.validation = "skip" =>
                      ret.validate_calls = 0 /\ ret.warnings = 0 /\ ReadReturnsStoredData
               /\ args.validation = "forbid" =>
                      /\ ret.validate_calls = 0
                      /\ ret.r.error = "ValidationRequiredError"
                      /\ ret.r.result = NoFrame
               /\ args.validation = "allow" =>
                      /\ ret.validate_calls = 1
                      /\ ret.warnings = 0
                      /\ \E order \in JoinOrders(schema, Len(df.rows)) :
                             ret.r = validate(schema, df, TRUE, order)
               /\ args.validation = "warn" =>
                      /\ ret.validate_calls = 1
                      /\ ret.warnings = 1
                      /\ \E order \in JoinOrders(schema, Len(df.rows)) :
                             ret.r = validate(schema, df, TRUE, order)

C16_Witness ==
    /\ pc = "read"
    /\ args.validation = "warn"
    /\ args.source.metadata = "mismatch"
    /\ ~args.source.is_list
    /\ ret.validate_calls = 1
    /\ ret.warnings = 1
    /\ ret.r.error = "RuleValidationError"

----------------------------------------------------------------------------
(* Properties of Collection.filter *)

CollectionReturned == pc = "filtered" /\ ret.r.error = "none"

\* what the schema of the member returns for the member's input
OwnResult(n) ==
    filter(MemberNamed(schema, n).schema, df[n], cast, Identity(Len(df[n].rows))).result

\* the frame of a filter of the collection has a row with the key
KeptBy(f, key) ==
    KeepCount(f, [n \in DOMAIN ret.r.members |->
                      [result |-> OwnResult(n)]],
              common_primary_keys(schema), key) > 0

\* C17: Collection.filter returns, for every member, a subset of the
\* member's input rows: every returned row is an input row and comes back
\* once, it passed the member's schema rules, and for a member that takes
\* part in filters its common primary key is kept by every filter; a member
\* ignored in filters comes back as its schema alone filters it.
C17_CollectionFilterReturnsSubsets ==
    CollectionReturned =>
        \A n \in DOMAIN ret.r.members :
            /\ \A r \in DOMAIN ret.r.members[n] :
                   /\ r.id \in Indices(df[n].rows)
                   /\ r.v = df[n].rows[r.id]
                   /\ ret.r.members[n][r] = 1
                   /\ \E i \in Indices(OwnResult(n)) : OwnResult(n)[i] = r
                   /\ ~MemberNamed(schema, n).ignored_in_filters =>
                          \A j \in Indices(schema.filters) :
                              KeptBy(schema.filters[j], KeyOf(r, common_primary_keys(schema)))
            /\ MemberNamed(schema, n).ignored_in_filters =>
                   ret.r.members[n] = OnceEach(OwnResult(n))

----------------------------------------------------------------------------
(* Properties of filtering the output of filter *)

\* C28: Schema.filter is idempotent on its output: filtering the valid
\* subset that Schema.filter returned again with the same schema raises
\* nothing, removes no row and yields an empty failure info.
C28_FilterIdempotentOnOutput ==
    pc = "refiltered" =>
        /\ Returned.error = "none"
        /\ {Returned.result[i].id : i \in Indices(Returned.result)} = Indices(df.rows)
        /\ Len(Returned.result) = Len(df.rows)
        /\ FailureLen(Returned.failure) = 0

----------------------------------------------------------------------------
(* Properties of Collection.validate *)

\* what the schemas of the members return for the input
OwnResults == [n \in FilteredMembers(schema, df) |-> [result |-> OwnResult(n)]]

\* the i-th input row of the member is a failing row: the schema of the
\* member drops it, or the member takes part in filters and some filter
\* does not keep the row's common primary key
FailingRow(n, i) ==
    \/ ~\E j \in Indices(OwnResult(n)) : OwnResult(n)[j].id = i
    \/ /\ ~MemberNamed(schema, n).ignored_in_filters
       /\ \E j \in Indices(schema.filters) :
              KeepCount(schema.filters[j], OwnResults, common_primary_keys(schema),
                        KeyOf([id |-> i, v |-> df[n].rows[i]],
                              common_primary_keys(schema))) = 0

\* the members of the input with at least one failing row
FailingMembers ==
    {n \in FilteredMembers(schema, df) : \E i \in Indices(df[n].rows) : FailingRow(n, i)}

\* Collection.validate was called with every required member and returned
\* or raised MemberValidationError
CollectionValidated ==
    pc = "validated" /\ ret.r.error \in {"none", "MemberValidationError"}

\* Collection.validate raises MemberValidationError exactly if some member
\* has a failing row
RaisesIffSomeMemberFails ==
    CollectionValidated =>
        (ret.r.error = "MemberValidationError" <=> FailingMembers # {})

\* C30: Collection.validate raises MemberValidationError if and only if at
\* least one member has a failing row, and the members in the error's
\* mapping are exactly the members with at least one failing row.
C30_MemberErrorNamesFailingMembers ==
    /\ RaisesIffSomeMemberFails
    /\ (pc = "validated" /\ ret.r.error = "MemberValidationError") =>
           DOMAIN ret.r.failures = FailingMembers

----------------------------------------------------------------------------
(* Properties of ordinal columns *)

\* the column a accepts the value: every declared bound holds for it
WithinBounds(column, x) ==
    /\ column.min.set => x >= column.min.v
    /\ column.min_exclusive.set => x > column.min_exclusive.v
    /\ column.max.set => x <= column.max.v
    /\ column.max_exclusive.set => x < column.max_exclusive.v

DeclaredRuleNames(column) ==
    (IF column.min.set THEN {"a|min"} ELSE {})
    \cup (IF column.min_exclusive.set THEN {"a|min_exclusive"} ELSE {})
    \cup (IF column.max.set THEN {"a|max"} ELSE {})
    \cup (IF column.max_exclusive.set THEN {"a|max_exclusive"} ELSE {})

\* C18: every bound of an ordinal column that is not None, zero included,
\* puts its rule into the column's validation rules, and the rules accept
\* a value exactly if it is within the declared bounds (max_exclusive=v
\* accepts x if and only if x < v).
C18_EveryDeclaredBoundIsChecked ==
    (pc = "filter" /\ ret.r.error = "none" /\ schema.name = "BoundedSchema") =>
        /\ Names(ValidationRules(schema)) = DeclaredRuleNames(schema.columns["a"])
        /\ \A i \in Indices(df.rows) :
               ~IsNull(df.rows[i]["a"]) =>
                   (WithinBounds(schema.columns["a"], df.rows[i]["a"].v)
                        <=> \E j \in Indices(ret.r.result) : ret.r.result[j].id = i)

----------------------------------------------------------------------------
(* Properties of the sampling rounds *)

\* the override rows as sample numbers them
OriginalOverrides == WithRowIndex(args.overrides.rows)

Entries(values) == {values[i] : i \in Indices(values)}

\* a sampling round has run and the loop has not been left
AfterRound == pc = "loop" /\ OverridesGiven(args.overrides)

\* C19: after every sampling round the used and the remaining overrides are
\* disjoint and together exactly the supplied override rows, there are as
\* many used overrides as accepted rows, and the k-th used override holds
\* the overridden values of the k-th accepted row.
C19_OverridesPartitionedByRound ==
    AfterRound =>
        /\ Entries(sampler.used_values) \cap Entries(sampler.remaining_values) = {}
        /\ Entries(sampler.used_values) \cup Entries(sampler.remaining_values)
               = Entries(OriginalOverrides)
        /\ Len(sampler.used_values) + Len(sampler.remaining_values) = Len(OriginalOverrides)
        /\ Len(sampler.used_values) = Len(sampler.result)
        /\ \A k \in Indices(sampler.used_values) :
               \A c \in sampler.keys : sampler.result[k][c] = sampler.used_values[k].v[c]

\* the accepted row an override is used for
RowOfOverride(state, entry) ==
    state.result[CHOOSE k \in Indices(state.used_values) : state.used_values[k] = entry]

\* a sampling round keeps every used override used, with the row it was
\* accepted with
RoundKeepsUsed ==
    (AfterRound /\ pc' = "loop") =>
        \A e \in Entries(sampler.used_values) :
            /\ e \in Entries(sampler.used_values')
            /\ RowOfOverride(sampler', e) = RowOfOverride(sampler, e)

\* C20: an override that a round has moved to the used overrides stays there
\* in every later round, and the values sampled for its accepted row are
\* not sampled again.
C20_UsedOverridesStayUsed == [][RoundKeepsUsed]_vars

\* a step of sample keeps every accepted row: a sampling round returns at
\* least as many rows as were accepted before it, every row accepted before
\* it among them, and the returned frame holds every accepted row
RoundKeepsAccepted ==
    /\ (pc = "loop" /\ pc' = "loop") =>
           /\ Len(sampler'.result) >= Len(sampler.result)
           /\ Entries(sampler.result) \subseteq Entries(sampler'.result)
    /\ (pc = "loop" /\ pc' = "sampled") =>
           /\ Len(ret'.r.result) = Len(sampler.result)
           /\ Entries(sampler.result) \subseteq Entries(ret'.r.result)

\* C27: during Schema.sample the number of accepted rows never decreases
\* from one sampling round to the next: a row accepted in some round is
\* part of the result of every later round and of the returned frame.
C27_AcceptedRowsNeverDecrease == [][RoundKeepsAccepted]_vars

====
